---------------------------- MODULE Spec2Model ----------------------------
(***************************************************************************)
(* TrineDSL: lexer, parser, operator library and interpreter of a          *)
(* balanced-ternary ("trit") circuit language (src/TrineDSL).              *)
(*                                                                         *)
(* Python text (str) that comes from the source text is a sequence of      *)
(* one-character strings, so that it can be scanned, sliced and converted  *)
(* the way the code does it; fixed labels of the code (token kinds, error  *)
(* labels, message templates) are TLA+ strings.  A Python call either      *)
(* returns a value or raises: Ok(v) and Raise(e).                          *)
(***************************************************************************)
EXTENDS Integers, Sequences, FiniteSets, TLC

VARIABLES
    \* --- operator library driver (apply_func called directly) ---
    fname,      \* function name handed to apply_func
    fargs,      \* argument list handed to apply_func
    fextra,     \* a further operand, for chained applications
    fres,       \* what the last apply_func call returned or raised
    fhist,      \* results of the successive applications, oldest first
    \* --- run_source pipeline ---
    src,        \* the source text
    envarg,     \* the env argument of run_source: None or a caller's Env
    pc,         \* where the run is: lex, parse, eval, done, failed
    i,          \* tokenize: offset into src
    tokens,     \* tokenize: tokens appended so far
    pos,        \* Parser.pos
    statements, \* parse_program: statements appended so far
    stmtpos,    \* source offset of the first token of each parsed statement
    k,          \* eval_program: number of statements whose evaluation began
    env,        \* Env.vars of the run's environment
    diag,       \* the exception that ended the run, or None
    result,     \* the Env returned by run_source, or None
    failpos,    \* source offset at which the failure happened, or -1
    ndiag,      \* number of exceptions raised during the run
    assigned,   \* name -> value of the last Env.set that returned, this run
    run,        \* number of the current run of this source
    outcomes,   \* outcome of each earlier run of this source
    \* --- position mapping driver (_pos_to_line_col called directly) ---
    ltext,      \* the text handed to _pos_to_line_col
    loffset,    \* the offset handed to _pos_to_line_col
    lwhere,     \* what _pos_to_line_col returned, or None
    \* --- eval_program called on two threads ---
    heap,       \* the Env objects that exist: Env.vars of each, by reference
    tprog,      \* thread -> the statements of the Program it evaluates
    targ,       \* thread -> Env.vars of the env argument at the call, or None
    tenv,       \* thread -> reference to its env (0 while it is None)
    tpc,        \* thread -> call, eval, done, failed
    tk,         \* thread -> number of statements whose evaluation began
    tdiag,      \* thread -> the exception that ended it, or None
    tresult     \* thread -> reference to the Env returned (0 while none)

opsvars == <<fname, fargs, fextra, fres, fhist>>
pipevars == <<src, envarg, pc, i, tokens, pos, statements, stmtpos, k, env,
              diag, result, failpos, ndiag, assigned, run, outcomes>>
locvars == <<ltext, loffset, lwhere>>
thrvars == <<heap, tprog, targ, tenv, tpc, tk, tdiag, tresult>>
vars == <<opsvars, pipevars, locvars, thrvars>>

\* Python's None.
None == [none |-> TRUE]

Ok(v) == [tag |-> "ok", val |-> v]
Raise(e) == [tag |-> "raise", err |-> e]
IsOk(r) == r.tag = "ok"

---------------------------------------------------------------------------
(* Bounds of the checked instances.                                        *)

\* Arguments handed to the operator library range over -MaxAbs..MaxAbs.
MaxAbs == 2
\* Longest argument list handed to apply_func.
MaxArgs == 3
\* Longest text over LexChars handed to the lexer.
MaxChars == 3
\* Longest text over TokWords, in words.
MaxToks == 4
\* Longest right-hand side over ExprWords, in words.
MaxExpr == 4
\* Longest text over LineChars handed to _pos_to_line_col.
MaxLine == 5
\* Longest chain of applications of one unary function to its own result.
MaxChain == 3
\* Most statement texts joined into one source text.
MaxStmts == 2
\* Most runs of run_source on one source text.
MaxRuns == 2

---------------------------------------------------------------------------
(* errors.py                                                               *)

\* The dataclass TrineDSLError and its three subclasses; cls is the class.
TrineDSLError(cls, error_type, error_statement, line, column, line_text, description) ==
    [cls |-> cls, error_type |-> error_type, error_statement |-> error_statement,
     line |-> line, column |-> column, line_text |-> line_text,
     description |-> description]

TrineDSLRuntimeError(error_statement, line, column, line_text, description) ==
    TrineDSLError("TrineDSLRuntimeError", "Runtime Error", error_statement,
                  line, column, line_text, description)

\* An f-string: the template and the texts substituted into it.
Fmt(template, args) == [fmt |-> template, args |-> args]

Digits == <<"0", "1", "2", "3", "4", "5", "6", "7", "8", "9">>

RECURSIVE NatStr(_)
NatStr(n) == IF n < 10 THEN <<Digits[n + 1]>>
             ELSE NatStr(n \div 10) \o <<Digits[(n % 10) + 1]>>

\* str(n) of an int, as an f-string renders it.
IntStr(n) == IF n < 0 THEN <<"-">> \o NatStr(-n) ELSE NatStr(n)

---------------------------------------------------------------------------
(* ops.py                                                                  *)

Trits == {-1, 0, 1}

_rt_error(error_statement, description) ==
    TrineDSLRuntimeError(error_statement, 1, 1, <<>>, description)

_check_trit(x) ==
    IF x \notin {-1, 0, 1}
    THEN Raise(_rt_error("Invalid Trit Value",
                         Fmt("Invalid trit value {x}, expected -1, 0, or +1.",
                             <<IntStr(x)>>)))
    ELSE Ok(x)

\* op_C cycling the other way round: -1 -> +1, 0 -> -1, +1 -> 0.
op_C_reversed(x) ==
    LET c == _check_trit(x) IN
    IF ~IsOk(c) THEN c
    ELSE IF c.val = -1 THEN Ok(1)
    ELSE IF c.val = 0 THEN Ok(-1)
    ELSE Ok(0)

op_C(x) ==
    LET c == _check_trit(x) IN
    IF ~IsOk(c) THEN c
    ELSE IF c.val = -1 THEN Ok(0)
    ELSE IF c.val = 0 THEN Ok(1)
    ELSE Ok(-1)

\* op_N without the validation of its input.
op_N_unchecked(x) == Ok(-1)

op_N(x) ==
    LET c == _check_trit(x) IN
    IF ~IsOk(c) THEN c ELSE Ok(-1)

op_A(x) ==
    LET c == _check_trit(x) IN
    IF ~IsOk(c) THEN c ELSE Ok(1)

op_TNOT(x) ==
    LET c == _check_trit(x) IN
    IF ~IsOk(c) THEN c ELSE Ok(-c.val)

\* Python's min and max of two ints.
min(a, b) == IF b < a THEN b ELSE a
max(a, b) == IF b > a THEN b ELSE a

\* op_TAND returning Python's "a and b" in place of min(a, b).
op_TAND_and(a, b) ==
    LET ca == _check_trit(a) IN
    IF ~IsOk(ca) THEN ca
    ELSE LET cb == _check_trit(b) IN
         IF ~IsOk(cb) THEN cb ELSE Ok(IF ca.val = 0 THEN ca.val ELSE cb.val)

op_TAND(a, b) ==
    LET ca == _check_trit(a) IN
    IF ~IsOk(ca) THEN ca
    ELSE LET cb == _check_trit(b) IN
         IF ~IsOk(cb) THEN cb ELSE Ok(min(ca.val, cb.val))

op_TOR(a, b) ==
    LET ca == _check_trit(a) IN
    IF ~IsOk(ca) THEN ca
    ELSE LET cb == _check_trit(b) IN
         IF ~IsOk(cb) THEN cb ELSE Ok(max(ca.val, cb.val))

op_TNAND(a, b) ==
    LET t == op_TAND(a, b) IN
    IF ~IsOk(t) THEN t ELSE op_TNOT(t.val)

\* op_TNOR built on op_TAND, as a copy of op_TNAND.
op_TNOR_copied(a, b) ==
    LET t == op_TAND(a, b) IN
    IF ~IsOk(t) THEN t ELSE op_TNOT(t.val)

op_TNOR(a, b) ==
    LET t == op_TOR(a, b) IN
    IF ~IsOk(t) THEN t ELSE op_TNOT(t.val)

_TXOR_TABLE ==
    (<<-1, -1>> :> 0)  @@ (<<-1, 0>> :> -1) @@ (<<-1, 1>> :> 1)  @@
    (<<0, -1>> :> -1)  @@ (<<0, 0>> :> 0)   @@ (<<0, 1>> :> -1)  @@
    (<<1, -1>> :> 1)   @@ (<<1, 0>> :> -1)  @@ (<<1, 1>> :> 0)

op_TXOR(a, b) ==
    LET ca == _check_trit(a) IN
    IF ~IsOk(ca) THEN ca
    ELSE LET cb == _check_trit(b) IN
         IF ~IsOk(cb) THEN cb ELSE Ok(_TXOR_TABLE[<<ca.val, cb.val>>])

_TSUM_TABLE ==
    (<<-1, -1>> :> 0)  @@ (<<-1, 0>> :> -1) @@ (<<-1, 1>> :> 0)  @@
    (<<0, -1>> :> -1)  @@ (<<0, 0>> :> 0)   @@ (<<0, 1>> :> 1)   @@
    (<<1, -1>> :> 0)   @@ (<<1, 0>> :> 1)   @@ (<<1, 1>> :> 0)

_TCARRY_TABLE ==
    (<<-1, -1>> :> -1) @@ (<<-1, 0>> :> 0)  @@ (<<-1, 1>> :> 0)  @@
    (<<0, -1>> :> 0)   @@ (<<0, 0>> :> 0)   @@ (<<0, 1>> :> 0)   @@
    (<<1, -1>> :> 0)   @@ (<<1, 0>> :> 0)   @@ (<<1, 1>> :> 1)

op_TSUM(a, b) ==
    LET ca == _check_trit(a) IN
    IF ~IsOk(ca) THEN ca
    ELSE LET cb == _check_trit(b) IN
         IF ~IsOk(cb) THEN cb ELSE Ok(_TSUM_TABLE[<<ca.val, cb.val>>])

op_TCARRY(a, b) ==
    LET ca == _check_trit(a) IN
    IF ~IsOk(ca) THEN ca
    ELSE LET cb == _check_trit(b) IN
         IF ~IsOk(cb) THEN cb ELSE Ok(_TCARRY_TABLE[<<ca.val, cb.val>>])

\* _arity with the expected and the actual count exchanged in the message.
_arity_swapped(name, expected, got) ==
    _rt_error("Wrong Number of Arguments",
              Fmt("Function '{name}' expects {expected} argument(s), but {got} was provided.",
                  <<name, IntStr(got), IntStr(expected)>>))

\* The nested helper of apply_func: the one shape of every arity error.
_arity(name, expected, got) ==
    _rt_error("Wrong Number of Arguments",
              Fmt("Function '{name}' expects {expected} argument(s), but {got} was provided.",
                  <<name, IntStr(expected), IntStr(got)>>))

apply_func(name, args) ==
    IF name = <<"C">> THEN
        IF Len(args) # 1 THEN Raise(_arity(name, 1, Len(args))) ELSE op_C(args[1])
    ELSE IF name = <<"N">> THEN
        IF Len(args) # 1 THEN Raise(_arity(name, 1, Len(args))) ELSE op_N(args[1])
    ELSE IF name = <<"A">> THEN
        IF Len(args) # 1 THEN Raise(_arity(name, 1, Len(args))) ELSE op_A(args[1])
    ELSE IF name = <<"T", "N", "O", "T">> THEN
        IF Len(args) # 1 THEN Raise(_arity(name, 1, Len(args))) ELSE op_TNOT(args[1])
    ELSE IF name = <<"T", "A", "N", "D">> THEN
        IF Len(args) # 2 THEN Raise(_arity(name, 2, Len(args)))
        ELSE op_TAND(args[1], args[2])
    ELSE IF name = <<"T", "O", "R">> THEN
        IF Len(args) # 2 THEN Raise(_arity(name, 2, Len(args)))
        ELSE op_TOR(args[1], args[2])
    ELSE IF name = <<"T", "N", "A", "N", "D">> THEN
        IF Len(args) # 2 THEN Raise(_arity(name, 2, Len(args)))
        ELSE op_TNAND(args[1], args[2])
    ELSE IF name = <<"T", "N", "O", "R">> THEN
        IF Len(args) # 2 THEN Raise(_arity(name, 2, Len(args)))
        ELSE op_TNOR(args[1], args[2])
    ELSE IF name = <<"T", "X", "O", "R">> THEN
        IF Len(args) # 2 THEN Raise(_arity(name, 2, Len(args)))
        ELSE op_TXOR(args[1], args[2])
    ELSE IF name = <<"T", "S", "U", "M">> THEN
        IF Len(args) # 2 THEN Raise(_arity(name, 2, Len(args)))
        ELSE op_TSUM(args[1], args[2])
    ELSE IF name = <<"T", "C", "A", "R", "R", "Y">> THEN
        IF Len(args) # 2 THEN Raise(_arity(name, 2, Len(args)))
        ELSE op_TCARRY(args[1], args[2])
    ELSE Raise(_rt_error("Unknown Function",
                         Fmt("Function '{name}' is not defined.", <<name>>)))

---------------------------------------------------------------------------
(* lexer.py                                                                *)

Token(kind, value, p) == [kind |-> kind, value |-> value, pos |-> p]

\* str.isspace, str.isdigit, str.isalpha, str.isalnum on the ASCII range.
SpaceChars == {" ", "\t", "\n", "\r"}
DigitChars == {Digits[d] : d \in 1..10}
AlphaChars ==
    {"A", "B", "C", "D", "E", "F", "G", "H", "I", "J", "K", "L", "M",
     "N", "O", "P", "Q", "R", "S", "T", "U", "V", "W", "X", "Y", "Z",
     "a", "b", "c", "d", "e", "f", "g", "h", "i", "j", "k", "l", "m",
     "n", "o", "p", "q", "r", "s", "t", "u", "v", "w", "x", "y", "z"}
isspace(ch) == ch \in SpaceChars
isdigit(ch) == ch \in DigitChars
isalpha(ch) == ch \in AlphaChars
isalnum(ch) == isalpha(ch) \/ isdigit(ch)

_is_ident_start(ch) == isalpha(ch) \/ ch = "_"
_is_ident_part(ch) == isalnum(ch) \/ ch = "_"

\* s[a:b], s[j] with Python's 0-based offsets.
Slice(s, a, b) == SubSeq(s, a + 1, b)
At(s, j) == s[j + 1]

\* s.rfind("\n", 0, hi), s.find("\n", lo), s.count("\n", 0, hi)
rfind_nl(s, hi) ==
    LET hits == {j \in 0..(hi - 1) : At(s, j) = "\n"} IN
    IF hits = {} THEN -1 ELSE CHOOSE j \in hits : \A h \in hits : h <= j
find_nl(s, lo) ==
    LET hits == {j \in lo..(Len(s) - 1) : At(s, j) = "\n"} IN
    IF hits = {} THEN -1 ELSE CHOOSE j \in hits : \A h \in hits : j <= h
count_nl(s, hi) == Cardinality({j \in 0..(hi - 1) : At(s, j) = "\n"})

\* _pos_to_line_col searching the line start up to and including pos:
\* src.rfind("\n", 0, pos + 1).
_pos_to_line_col_incl(s, p) ==
    LET r == rfind_nl(s, IF p < Len(s) THEN p + 1 ELSE p)
        line_start == IF r = -1 THEN 0 ELSE r + 1
        f == find_nl(s, p)
        line_end == IF f = -1 THEN Len(s) ELSE f
    IN  [line |-> count_nl(s, p) + 1,
         column |-> p - line_start + 1,
         line_text |-> Slice(s, line_start, line_end)]

\* _pos_to_line_col with a 0-based column: the "+ 1" of col_no left out.
_pos_to_line_col_col0(s, p) ==
    LET r == rfind_nl(s, p)
        line_start == IF r = -1 THEN 0 ELSE r + 1
        f == find_nl(s, p)
        line_end == IF f = -1 THEN Len(s) ELSE f
    IN  [line |-> count_nl(s, p) + 1,
         column |-> p - line_start,
         line_text |-> Slice(s, line_start, line_end)]

_pos_to_line_col(s, p) ==
    LET r == rfind_nl(s, p)
        line_start == IF r = -1 THEN 0 ELSE r + 1
        f == find_nl(s, p)
        line_end == IF f = -1 THEN Len(s) ELSE f
    IN  [line |-> count_nl(s, p) + 1,
         column |-> p - line_start + 1,
         line_text |-> Slice(s, line_start, line_end)]

TrineDSLLexError(error_statement, lc, description) ==
    TrineDSLError("TrineDSLLexError", "Lexing Error", error_statement,
                  lc.line, lc.column, lc.line_text, description)

\* An exception together with the source offset it was raised for.
RaiseAt(e, p) == [tag |-> "raise", err |-> e, at |-> p]

\* The inner while loops of tokenize: the first offset >= j at which the
\* loop condition fails.
RECURSIVE SkipComment(_, _)
SkipComment(s, j) ==
    IF j < Len(s) /\ At(s, j) # "\n" THEN SkipComment(s, j + 1) ELSE j
RECURSIVE SkipDigits(_, _)
SkipDigits(s, j) ==
    IF j < Len(s) /\ isdigit(At(s, j)) THEN SkipDigits(s, j + 1) ELSE j
RECURSIVE SkipIdent(_, _)
SkipIdent(s, j) ==
    IF j < Len(s) /\ _is_ident_part(At(s, j)) THEN SkipIdent(s, j + 1) ELSE j

\* The trit-literal branch without the test of the text against "-1", "0"
\* and "+1": every run of digits, signed or not, becomes a TRIT token.
TritBranch_anydigits(s, start) ==
    LET n == Len(s)
        ch == At(s, start)
        signed == ch \in {"+", "-"}
        j == IF signed THEN start + 1 ELSE start
    IN  IF signed /\ (j >= n \/ ~isdigit(At(s, j)))
        THEN RaiseAt(TrineDSLLexError("Invalid Trit Literal",
                        _pos_to_line_col(s, start),
                        Fmt("Invalid signed numeric literal; trits must be -1, 0, or +1.",
                            <<>>)),
                     start)
        ELSE LET e == SkipDigits(s, j)
                 text == Slice(s, start, e)
             IN  [tag |-> "token", tok |-> Token("TRIT", text, start), i |-> e]

\* The trit-literal branch with an unsigned "1" among the accepted texts.
TritBranch_unsigned(s, start) ==
    LET n == Len(s)
        ch == At(s, start)
        signed == ch \in {"+", "-"}
        j == IF signed THEN start + 1 ELSE start
    IN  IF signed /\ (j >= n \/ ~isdigit(At(s, j)))
        THEN RaiseAt(TrineDSLLexError("Invalid Trit Literal",
                        _pos_to_line_col(s, start),
                        Fmt("Invalid signed numeric literal; trits must be -1, 0, or +1.",
                            <<>>)),
                     start)
        ELSE LET e == SkipDigits(s, j)
                 text == Slice(s, start, e)
             IN  IF text \notin {<<"-", "1">>, <<"0">>, <<"+", "1">>, <<"1">>}
                 THEN RaiseAt(TrineDSLLexError("Invalid Trit Literal",
                                 _pos_to_line_col(s, start),
                                 Fmt("'{text}' is not a valid trit literal; expected -1, 0, or +1.",
                                     <<text>>)),
                              start)
                 ELSE [tag |-> "token", tok |-> Token("TRIT", text, start), i |-> e]

\* The trit-literal branch of the loop body, entered at offset start.
TritBranch(s, start) ==
    LET n == Len(s)
        ch == At(s, start)
        signed == ch \in {"+", "-"}
        j == IF signed THEN start + 1 ELSE start
    IN  IF signed /\ (j >= n \/ ~isdigit(At(s, j)))
        THEN RaiseAt(TrineDSLLexError("Invalid Trit Literal",
                        _pos_to_line_col(s, start),
                        Fmt("Invalid signed numeric literal; trits must be -1, 0, or +1.",
                            <<>>)),
                     start)
        ELSE LET e == SkipDigits(s, j)
                 text == Slice(s, start, e)
             IN  IF text \notin {<<"-", "1">>, <<"0">>, <<"+", "1">>}
                 THEN RaiseAt(TrineDSLLexError("Invalid Trit Literal",
                                 _pos_to_line_col(s, start),
                                 Fmt("'{text}' is not a valid trit literal; expected -1, 0, or +1.",
                                     <<text>>)),
                              start)
                 ELSE [tag |-> "token", tok |-> Token("TRIT", text, start), i |-> e]

\* The loop body with "continue" in the whitespace branch but without the
\* "i += 1" before it.
LoopBody_stuck(s, j) ==
    LET n == Len(s)
        ch == At(s, j)
    IN  IF isspace(ch) THEN [tag |-> "skip", i |-> j]
        ELSE IF ch = "/" /\ j + 1 < n /\ At(s, j + 1) = "/"
             THEN [tag |-> "skip", i |-> SkipComment(s, j + 2)]
        ELSE IF ch = "=" THEN [tag |-> "token", tok |-> Token("EQUAL", <<"=">>, j), i |-> j + 1]
        ELSE IF ch = "," THEN [tag |-> "token", tok |-> Token("COMMA", <<",">>, j), i |-> j + 1]
        ELSE IF ch = ";" THEN [tag |-> "token", tok |-> Token("SEMI", <<";">>, j), i |-> j + 1]
        ELSE IF ch = "(" THEN [tag |-> "token", tok |-> Token("LPAREN", <<"(">>, j), i |-> j + 1]
        ELSE IF ch = ")" THEN [tag |-> "token", tok |-> Token("RPAREN", <<")">>, j), i |-> j + 1]
        ELSE IF ch \in {"+", "-"} \cup DigitChars THEN TritBranch(s, j)
        ELSE IF _is_ident_start(ch)
             THEN LET e == SkipIdent(s, j + 1)
                      text == Slice(s, j, e)
                  IN  IF text = <<"t", "r", "i", "t">>
                      THEN [tag |-> "token", tok |-> Token("KW_TRIT", text, j), i |-> e]
                      ELSE [tag |-> "token", tok |-> Token("IDENT", text, j), i |-> e]
        ELSE RaiseAt(TrineDSLLexError("Unexpected Character",
                        _pos_to_line_col(s, j),
                        Fmt("'{ch}' is an unexpected character.", <<<<ch>>>>)),
                     j)

\* The loop body taking every '/' for the start of a comment: the test of
\* the second '/' left out.
LoopBody_slash(s, j) ==
    LET n == Len(s)
        ch == At(s, j)
    IN  IF isspace(ch) THEN [tag |-> "skip", i |-> j + 1]
        ELSE IF ch = "/"
             THEN [tag |-> "skip", i |-> SkipComment(s, j + 1)]
        ELSE IF ch = "=" THEN [tag |-> "token", tok |-> Token("EQUAL", <<"=">>, j), i |-> j + 1]
        ELSE IF ch = "," THEN [tag |-> "token", tok |-> Token("COMMA", <<",">>, j), i |-> j + 1]
        ELSE IF ch = ";" THEN [tag |-> "token", tok |-> Token("SEMI", <<";">>, j), i |-> j + 1]
        ELSE IF ch = "(" THEN [tag |-> "token", tok |-> Token("LPAREN", <<"(">>, j), i |-> j + 1]
        ELSE IF ch = ")" THEN [tag |-> "token", tok |-> Token("RPAREN", <<")">>, j), i |-> j + 1]
        ELSE IF ch \in {"+", "-"} \cup DigitChars THEN TritBranch(s, j)
        ELSE IF _is_ident_start(ch)
             THEN LET e == SkipIdent(s, j + 1)
                      text == Slice(s, j, e)
                  IN  IF text = <<"t", "r", "i", "t">>
                      THEN [tag |-> "token", tok |-> Token("KW_TRIT", text, j), i |-> e]
                      ELSE [tag |-> "token", tok |-> Token("IDENT", text, j), i |-> e]
        ELSE RaiseAt(TrineDSLLexError("Unexpected Character",
                        _pos_to_line_col(s, j),
                        Fmt("'{ch}' is an unexpected character.", <<<<ch>>>>)),
                     j)

\* One iteration of the while loop of tokenize, entered with offset j < n:
\* it skips, appends one token, or raises.
LoopBody(s, j) ==
    LET n == Len(s)
        ch == At(s, j)
    IN  IF isspace(ch) THEN [tag |-> "skip", i |-> j + 1]
        ELSE IF ch = "/" /\ j + 1 < n /\ At(s, j + 1) = "/"
             THEN [tag |-> "skip", i |-> SkipComment(s, j + 2)]
        ELSE IF ch = "=" THEN [tag |-> "token", tok |-> Token("EQUAL", <<"=">>, j), i |-> j + 1]
        ELSE IF ch = "," THEN [tag |-> "token", tok |-> Token("COMMA", <<",">>, j), i |-> j + 1]
        ELSE IF ch = ";" THEN [tag |-> "token", tok |-> Token("SEMI", <<";">>, j), i |-> j + 1]
        ELSE IF ch = "(" THEN [tag |-> "token", tok |-> Token("LPAREN", <<"(">>, j), i |-> j + 1]
        ELSE IF ch = ")" THEN [tag |-> "token", tok |-> Token("RPAREN", <<")">>, j), i |-> j + 1]
        ELSE IF ch \in {"+", "-"} \cup DigitChars THEN TritBranch(s, j)
        ELSE IF _is_ident_start(ch)
             THEN LET e == SkipIdent(s, j + 1)
                      text == Slice(s, j, e)
                  IN  IF text = <<"t", "r", "i", "t">>
                      THEN [tag |-> "token", tok |-> Token("KW_TRIT", text, j), i |-> e]
                      ELSE [tag |-> "token", tok |-> Token("IDENT", text, j), i |-> e]
        ELSE RaiseAt(TrineDSLLexError("Unexpected Character",
                        _pos_to_line_col(s, j),
                        Fmt("'{ch}' is an unexpected character.", <<<<ch>>>>)),
                     j)

---------------------------------------------------------------------------
(* ast.py                                                                  *)

Program(stmts) == [node |-> "Program", statements |-> stmts]
Decl(type_name, names) == [node |-> "Decl", type_name |-> type_name, names |-> names]
Assign(name, expr) == [node |-> "Assign", name |-> name, expr |-> expr]
Name(name) == [node |-> "Name", name |-> name]
TritLiteral(value) == [node |-> "TritLiteral", value |-> value]
FuncCall(func, args) == [node |-> "FuncCall", func |-> func, args |-> args]

---------------------------------------------------------------------------
(* parser.py                                                               *)

TrineDSLParseError(error_statement, lc, description) ==
    TrineDSLError("TrineDSLParseError", "Parsing Error", error_statement,
                  lc.line, lc.column, lc.line_text, description)

\* Parser.current with Parser.pos = p.
current(toks, p) == toks[p + 1]

\* Parser._line_info
_line_info(s, p) == _pos_to_line_col(s, p)

\* A parse method that returned value v and left Parser.pos at p.
Parsed(v, p) == [tag |-> "ok", val |-> v, pos |-> p]

\* int(text) for a text made of an optional sign and decimal digits.
DigitVal(ch) == CHOOSE d \in 0..9 : Digits[d + 1] = ch
RECURSIVE DigitsVal(_)
DigitsVal(ds) ==
    IF ds = <<>> THEN 0
    ELSE 10 * DigitsVal(SubSeq(ds, 1, Len(ds) - 1)) + DigitVal(ds[Len(ds)])
int(text) ==
    IF Head(text) = "-" THEN -DigitsVal(Tail(text))
    ELSE IF Head(text) = "+" THEN DigitsVal(Tail(text))
    ELSE DigitsVal(text)

RECURSIVE parse_expr(_, _, _)
RECURSIVE ArgLoop(_, _, _, _)

\* The loop "while self._match('COMMA'): args.append(self.parse_expr())"
\* of parse_expr, entered with the arguments parsed so far.
ArgLoop(toks, s, p, args) ==
    IF current(toks, p).kind = "COMMA"
    THEN LET a == parse_expr(toks, s, p + 1) IN
         IF ~IsOk(a) THEN a ELSE ArgLoop(toks, s, a.pos, Append(args, a.val))
    ELSE Parsed(args, p)

\* parse_expr without the test "if self.current.kind != 'RPAREN'": an
\* argument is parsed after every '('.
parse_expr_nonempty(toks, s, p) ==
    LET tok == current(toks, p) IN
    IF tok.kind = "TRIT" THEN Parsed(TritLiteral(int(tok.value)), p + 1)
    ELSE IF tok.kind = "IDENT" THEN
        IF current(toks, p + 1).kind = "LPAREN"
        THEN LET args ==
                    LET a == parse_expr(toks, s, p + 2) IN
                    IF ~IsOk(a) THEN a ELSE ArgLoop(toks, s, a.pos, <<a.val>>)
             IN  IF ~IsOk(args) THEN args
                 ELSE LET rparen == current(toks, args.pos) IN
                      IF rparen.kind # "RPAREN"
                      THEN RaiseAt(TrineDSLParseError("Missing Closing Parenthesis",
                                      _line_info(s, rparen.pos),
                                      Fmt("Expected ')' to close function call arguments.", <<>>)),
                                   rparen.pos)
                      ELSE Parsed(FuncCall(tok.value, args.val), args.pos + 1)
        ELSE Parsed(Name(tok.value), p + 1)
    ELSE RaiseAt(TrineDSLParseError("Unexpected Token in Expression",
                    _line_info(s, tok.pos),
                    Fmt("Unexpected token '{tok.value}' ({tok.kind}) in expression.",
                        <<tok.value, <<tok.kind>>>>)),
                 tok.pos)

parse_expr(toks, s, p) ==
    LET tok == current(toks, p) IN
    IF tok.kind = "TRIT" THEN Parsed(TritLiteral(int(tok.value)), p + 1)
    ELSE IF tok.kind = "IDENT" THEN
        IF current(toks, p + 1).kind = "LPAREN"
        THEN LET args ==
                    IF current(toks, p + 2).kind # "RPAREN"
                    THEN LET a == parse_expr(toks, s, p + 2) IN
                         IF ~IsOk(a) THEN a ELSE ArgLoop(toks, s, a.pos, <<a.val>>)
                    ELSE Parsed(<<>>, p + 2)
             IN  IF ~IsOk(args) THEN args
                 ELSE LET rparen == current(toks, args.pos) IN
                      IF rparen.kind # "RPAREN"
                      THEN RaiseAt(TrineDSLParseError("Missing Closing Parenthesis",
                                      _line_info(s, rparen.pos),
                                      Fmt("Expected ')' to close function call arguments.", <<>>)),
                                   rparen.pos)
                      ELSE Parsed(FuncCall(tok.value, args.val), args.pos + 1)
        ELSE Parsed(Name(tok.value), p + 1)
    ELSE RaiseAt(TrineDSLParseError("Unexpected Token in Expression",
                    _line_info(s, tok.pos),
                    Fmt("Unexpected token '{tok.value}' ({tok.kind}) in expression.",
                        <<tok.value, <<tok.kind>>>>)),
                 tok.pos)

\* The loop of parse_decl_stmt ending quietly when no identifier follows
\* the comma.
RECURSIVE DeclLoop_trailing(_, _, _, _)
DeclLoop_trailing(toks, s, p, names) ==
    IF current(toks, p).kind = "COMMA"
    THEN LET ident == current(toks, p + 1) IN
         IF ident.kind # "IDENT"
         THEN Parsed(names, p + 1)
         ELSE DeclLoop_trailing(toks, s, p + 2, Append(names, ident.value))
    ELSE Parsed(names, p)

\* The loop "while self._match('COMMA')" of parse_decl_stmt.
RECURSIVE DeclLoop(_, _, _, _)
DeclLoop(toks, s, p, names) ==
    IF current(toks, p).kind = "COMMA"
    THEN LET ident == current(toks, p + 1) IN
         IF ident.kind # "IDENT"
         THEN RaiseAt(TrineDSLParseError("Expected Identifier in Declaration",
                         _line_info(s, ident.pos),
                         Fmt("Expected an identifier after ','.", <<>>)),
                      ident.pos)
         ELSE DeclLoop(toks, s, p + 2, Append(names, ident.value))
    ELSE Parsed(names, p)

parse_decl_stmt(toks, s, p) ==
    LET kw_tok == current(toks, p) IN
    IF kw_tok.kind # "KW_TRIT"
    THEN RaiseAt(TrineDSLParseError("Expected 'trit' Keyword",
                    _line_info(s, kw_tok.pos),
                    Fmt("Declaration must start with the 'trit' keyword.", <<>>)),
                 kw_tok.pos)
    ELSE LET first == current(toks, p + 1) IN
         IF first.kind # "IDENT"
         THEN RaiseAt(TrineDSLParseError("Expected Identifier in Declaration",
                         _line_info(s, first.pos),
                         Fmt("Expected an identifier after 'trit'.", <<>>)),
                      first.pos)
         ELSE LET names == DeclLoop(toks, s, p + 2, <<first.value>>) IN
              IF ~IsOk(names) THEN names
              ELSE Parsed(Decl(<<"t", "r", "i", "t">>, names.val), names.pos)

parse_assign_stmt(toks, s, p) ==
    LET name_tok == current(toks, p) IN
    IF name_tok.kind # "IDENT"
    THEN RaiseAt(TrineDSLParseError("Expected Identifier in Assignment",
                    _line_info(s, name_tok.pos),
                    Fmt("Assignment must start with an identifier.", <<>>)),
                 name_tok.pos)
    ELSE LET eq_tok == current(toks, p + 1) IN
         IF eq_tok.kind # "EQUAL"
         THEN RaiseAt(TrineDSLParseError("Expected '=' After Identifier",
                         _line_info(s, eq_tok.pos),
                         Fmt("Expected '=' after identifier in assignment.", <<>>)),
                      eq_tok.pos)
         ELSE LET expr == parse_expr(toks, s, p + 2) IN
              IF ~IsOk(expr) THEN expr
              ELSE Parsed(Assign(name_tok.value, expr.val), expr.pos)

\* parse_statement locating a missing ';' at the token before, the last one
\* of the statement body.
parse_statement_last(toks, s, p) ==
    LET tok == current(toks, p)
        stmt == IF tok.kind = "KW_TRIT" THEN parse_decl_stmt(toks, s, p)
                ELSE IF tok.kind = "IDENT" THEN parse_assign_stmt(toks, s, p)
                ELSE RaiseAt(TrineDSLParseError("Unexpected Token at Statement Start",
                                _line_info(s, tok.pos),
                                Fmt("Unexpected token '{tok.value}' ({tok.kind}) at the beginning of a statement.",
                                    <<tok.value, <<tok.kind>>>>)),
                             tok.pos)
    IN  IF ~IsOk(stmt) THEN stmt
        ELSE LET semi == current(toks, stmt.pos)
                 last == current(toks, stmt.pos - 1)
             IN
             IF semi.kind # "SEMI"
             THEN RaiseAt(TrineDSLParseError("Missing Semicolon",
                             _line_info(s, last.pos),
                             Fmt("Expected ';' at the end of the statement.", <<>>)),
                          last.pos)
             ELSE Parsed(stmt.val, stmt.pos + 1)

parse_statement(toks, s, p) ==
    LET tok == current(toks, p)
        stmt == IF tok.kind = "KW_TRIT" THEN parse_decl_stmt(toks, s, p)
                ELSE IF tok.kind = "IDENT" THEN parse_assign_stmt(toks, s, p)
                ELSE RaiseAt(TrineDSLParseError("Unexpected Token at Statement Start",
                                _line_info(s, tok.pos),
                                Fmt("Unexpected token '{tok.value}' ({tok.kind}) at the beginning of a statement.",
                                    <<tok.value, <<tok.kind>>>>)),
                             tok.pos)
    IN  IF ~IsOk(stmt) THEN stmt
        ELSE LET semi == current(toks, stmt.pos) IN
             IF semi.kind # "SEMI"
             THEN RaiseAt(TrineDSLParseError("Missing Semicolon",
                             _line_info(s, semi.pos),
                             Fmt("Expected ';' at the end of the statement.", <<>>)),
                          semi.pos)
             ELSE Parsed(stmt.val, stmt.pos + 1)

---------------------------------------------------------------------------
(* interp.py                                                               *)

\* Env() with one dict shared by every instance (vars = {} on the class):
\* a new Env sees what the Env of the run before it holds.
Env_shared ==
    IF outcomes = <<>> THEN <<>>
    ELSE LET last == outcomes[Len(outcomes)].env IN
         IF last = None THEN <<>> ELSE last

\* Env(): the vars of a newly constructed Env, field(default_factory=dict).
Env == [n \in {} |-> 0]

\* A method of Env, or a statement evaluator, that returned or raised and
\* left Env.vars as vs.
Returned(vs) == [tag |-> "ok", vars |-> vs]
Raised(e, vs) == [tag |-> "raise", err |-> e, vars |-> vs]

\* vs[name] = value on a dict.
DictSet(vs, name, value) ==
    [n \in (DOMAIN vs) \cup {name} |-> IF n = name THEN value ELSE vs[n]]

\* Env.declare without the test "if name in self.vars": a name already
\* present is set to the initial value again.
Env_declare_again(vs, name, initial) == Returned(DictSet(vs, name, initial))

Env_declare(vs, name, initial) ==
    IF name \in DOMAIN vs
    THEN Raised(TrineDSLRuntimeError("Redeclaration of Variable", 1, 1, <<>>,
                    Fmt("Variable '{name}' is already declared.", <<name>>)),
                vs)
    ELSE Returned(DictSet(vs, name, initial))

Env_set(vs, name, value) ==
    IF name \notin DOMAIN vs
    THEN Raised(TrineDSLRuntimeError("Assignment to Undeclared Variable", 1, 1, <<>>,
                    Fmt("Variable '{name}' is not declared.", <<name>>)),
                vs)
    ELSE IF value \notin {-1, 0, 1}
    THEN Raised(TrineDSLRuntimeError("Invalid Trit Value", 1, 1, <<>>,
                    Fmt("Invalid trit value {value} assigned to '{name}'; expected -1, 0, or +1.",
                        <<IntStr(value), name>>)),
                vs)
    ELSE Returned(DictSet(vs, name, value))

Env_get(vs, name) ==
    IF name \notin DOMAIN vs
    THEN Raise(TrineDSLRuntimeError("Use of Undeclared Variable", 1, 1, <<>>,
                   Fmt("Variable '{name}' is not declared.", <<name>>)))
    ELSE Ok(vs[name])

RECURSIVE eval_expr(_, _)
RECURSIVE EvalArgs(_, _, _)

\* The arguments evaluated from the last one to the first.
RECURSIVE EvalArgs_reversed(_, _, _)
EvalArgs_reversed(args, vs, vals) ==
    IF args = <<>> THEN Ok(vals)
    ELSE LET v == eval_expr(args[Len(args)], vs) IN
         IF ~IsOk(v) THEN v
         ELSE EvalArgs_reversed(SubSeq(args, 1, Len(args) - 1), vs, <<v.val>> \o vals)

\* The list comprehension [eval_expr(arg, env) for arg in expr.args], with
\* the values of the arguments evaluated so far.
EvalArgs(args, vs, vals) ==
    IF args = <<>> THEN Ok(vals)
    ELSE LET v == eval_expr(Head(args), vs) IN
         IF ~IsOk(v) THEN v ELSE EvalArgs(Tail(args), vs, Append(vals, v.val))

\* eval_expr looking a called name up in the environment first: a variable
\* of that name stands for the call.
eval_expr_shadowed(expr, vs) ==
    IF expr.node = "Name" THEN Env_get(vs, expr.name)
    ELSE IF expr.node = "TritLiteral" THEN
        IF expr.value \notin {-1, 0, 1}
        THEN Raise(TrineDSLRuntimeError("Invalid Trit Literal", 1, 1, <<>>,
                       Fmt("Invalid trit literal {val}; expected -1, 0, or +1.",
                           <<IntStr(expr.value)>>)))
        ELSE Ok(expr.value)
    ELSE IF expr.node = "FuncCall" THEN
        LET arg_vals == EvalArgs(expr.args, vs, <<>>) IN
        IF ~IsOk(arg_vals) THEN arg_vals
        ELSE IF expr.func \in DOMAIN vs THEN Ok(vs[expr.func])
        ELSE apply_func(expr.func, arg_vals.val)
    ELSE Raise(TrineDSLRuntimeError("Internal Error", 1, 1, <<>>,
                   Fmt("Unknown expression type: {type(expr)!r}.", <<<<expr.node>>>>)))

eval_expr(expr, vs) ==
    IF expr.node = "Name" THEN Env_get(vs, expr.name)
    ELSE IF expr.node = "TritLiteral" THEN
        IF expr.value \notin {-1, 0, 1}
        THEN Raise(TrineDSLRuntimeError("Invalid Trit Literal", 1, 1, <<>>,
                       Fmt("Invalid trit literal {val}; expected -1, 0, or +1.",
                           <<IntStr(expr.value)>>)))
        ELSE Ok(expr.value)
    ELSE IF expr.node = "FuncCall" THEN
        LET arg_vals == EvalArgs(expr.args, vs, <<>>) IN
        IF ~IsOk(arg_vals) THEN arg_vals ELSE apply_func(expr.func, arg_vals.val)
    ELSE Raise(TrineDSLRuntimeError("Internal Error", 1, 1, <<>>,
                   Fmt("Unknown expression type: {type(expr)!r}.", <<<<expr.node>>>>)))

\* The loop "for name in decl.names: env.declare(name, initial=0)".
RECURSIVE DeclareLoop(_, _)
DeclareLoop(names, vs) ==
    IF names = <<>> THEN Returned(vs)
    ELSE LET d == Env_declare(vs, Head(names), 0) IN
         IF ~IsOk(d) THEN d ELSE DeclareLoop(Tail(names), d.vars)

\* _eval_decl taking back, when a name fails, the names it has declared
\* before it.
_eval_decl_atomic(decl, vs) ==
    IF decl.type_name # <<"t", "r", "i", "t">>
    THEN Raised(TrineDSLRuntimeError("Unsupported Type", 1, 1, <<>>,
                    Fmt("Unsupported type '{decl.type_name}' in declaration.",
                        <<decl.type_name>>)),
                vs)
    ELSE LET d == DeclareLoop(decl.names, vs) IN
         IF IsOk(d) THEN d ELSE Raised(d.err, vs)

_eval_decl(decl, vs) ==
    IF decl.type_name # <<"t", "r", "i", "t">>
    THEN Raised(TrineDSLRuntimeError("Unsupported Type", 1, 1, <<>>,
                    Fmt("Unsupported type '{decl.type_name}' in declaration.",
                        <<decl.type_name>>)),
                vs)
    ELSE DeclareLoop(decl.names, vs)

\* _eval_assign setting the target to 0 before it evaluates the expression.
_eval_assign_resetting(assign, vs) ==
    LET cleared == DictSet(vs, assign.name, 0)
        value == eval_expr(assign.expr, vs)
    IN  IF ~IsOk(value) THEN Raised(value.err, cleared)
        ELSE Env_set(cleared, assign.name, value.val)

\* _eval_assign storing into env.vars directly, so that assigning to an
\* undeclared name creates it.
_eval_assign_creating(assign, vs) ==
    LET value == eval_expr(assign.expr, vs) IN
    IF ~IsOk(value) THEN Raised(value.err, vs)
    ELSE Returned([n \in (DOMAIN vs) \cup {assign.name} |->
                      IF n = assign.name THEN value.val ELSE vs[n]])

\* _eval_assign checking the target before it evaluates the expression.
_eval_assign_target_first(assign, vs) ==
    IF assign.name \notin DOMAIN vs
    THEN Raised(TrineDSLRuntimeError("Assignment to Undeclared Variable", 1, 1, <<>>,
                    Fmt("Variable '{name}' is not declared.", <<assign.name>>)),
                vs)
    ELSE LET value == eval_expr(assign.expr, vs) IN
         IF ~IsOk(value) THEN Raised(value.err, vs)
         ELSE Env_set(vs, assign.name, value.val)

_eval_assign(assign, vs) ==
    LET value == eval_expr(assign.expr, vs) IN
    IF ~IsOk(value) THEN Raised(value.err, vs)
    ELSE Env_set(vs, assign.name, value.val)

eval_stmt(stmt, vs) ==
    IF stmt.node = "Decl" THEN _eval_decl(stmt, vs)
    ELSE IF stmt.node = "Assign" THEN _eval_assign(stmt, vs)
    ELSE Raised(TrineDSLRuntimeError("Internal Error", 1, 1, <<>>,
                    Fmt("Unknown statement type: {type(stmt)!r}.", <<<<stmt.node>>>>)),
                vs)

---------------------------------------------------------------------------
(* The inputs: source texts and caller environments.                       *)

\* Statement texts, well-formed and not, that source texts are made of.
StmtTexts == {
    \* trit A;
    <<"t", "r", "i", "t", " ", "A", ";">>,
    \* trit A,B;
    <<"t", "r", "i", "t", " ", "A", ",", "B", ";">>,
    \* trit A, A;
    <<"t", "r", "i", "t", " ", "A", ",", " ", "A", ";">>,
    \* trit B,A;
    <<"t", "r", "i", "t", " ", "B", ",", "A", ";">>,
    \* A=A;
    <<"A", "=", "A", ";">>,
    \* A=-1;
    <<"A", "=", "-", "1", ";">>,
    \* B=+1;//c
    <<"B", "=", "+", "1", ";", "/", "/", "c">>,
    \* A=TAND(A);
    <<"A", "=", "T", "A", "N", "D", "(", "A", ")", ";">>,
    \* A=TSUM(A,B);
    <<"A", "=", "T", "S", "U", "M", "(", "A", ",", "B", ")", ";">>,
    \* B=C(A);
    <<"B", "=", "C", "(", "A", ")", ";">>,
    \* B=FOO(Y);
    <<"B", "=", "F", "O", "O", "(", "Y", ")", ";">>,
    \* A=C();
    <<"A", "=", "C", "(", ")", ";">>,
    \* X=2;
    <<"X", "=", "2", ";">>,
    \* A=@;
    <<"A", "=", "@", ";">>,
    \* trit A A = 0;
    <<"t", "r", "i", "t", " ", "A", " ", "A", " ", "=", " ", "0", ";">>,
    \* A=C(A;
    <<"A", "=", "C", "(", "A", ";">>,
    \* A=B
    <<"A", "=", "B">>
}

\* All sequences over S of length 0..n.
RECURSIVE SeqsUpTo(_, _)
SeqsUpTo(S, n) ==
    IF n = 0 THEN {<<>>}
    ELSE LET shorter == SeqsUpTo(S, n - 1) IN
         shorter \cup {Append(q, x) : q \in {r \in shorter : Len(r) = n - 1}, x \in S}

\* The texts of ts, one per line.
RECURSIVE JoinLines(_)
JoinLines(ts) ==
    IF ts = <<>> THEN <<>>
    ELSE IF Len(ts) = 1 THEN ts[1]
    ELSE ts[1] \o <<"\n">> \o JoinLines(Tail(ts))

\* The three trit literals as written in a source text.
LitTexts == {<<"-", "1">>, <<"0">>, <<"+", "1">>}

\* The program of test.py, with literals a and b in place of -1 and +1.
TestSource(a, b) ==
    <<"\n">>
    \o <<" ", " ", " ", " ", " ", " ", " ", " ", "t", "r", "i", "t", " ", "A", ",", " ", "B", ",", " ", "S", ",", " ", "C", ";", "\n", "\n">>
    \o <<" ", " ", " ", " ", " ", " ", " ", " ", "A", " ", "=", " ">> \o a \o <<";", "\n">>
    \o <<" ", " ", " ", " ", " ", " ", " ", " ", "B", " ", "=", " ">> \o b \o <<";", "\n">>
    \o <<" ", " ", " ", " ", " ", " ", " ", " ", "S", " ", "=", " ", "T", "S", "U", "M", "(", "A", ",", " ", "B", ")", ";", "\n">>
    \o <<" ", " ", " ", " ", " ", " ", " ", " ", "C", " ", "=", " ", "T", "C", "A", "R", "R", "Y", "(", "A", ",", " ", "B", ")", ";", "\n">>
    \o <<" ", " ", " ", " ">>

\* The source texts of the documented examples.
\* trit X; X = 2;
Example_X2 == <<"t", "r", "i", "t", " ", "X", ";", " ", "X", " ", "=", " ", "2", ";">>
\* trit A A = 0;
Example_AA == <<"t", "r", "i", "t", " ", "A", " ", "A", " ", "=", " ", "0", ";">>
\* trit A; A = A;
Example_SelfAssign == <<"t", "r", "i", "t", " ", "A", ";", " ", "A", " ", "=", " ", "A", ";">>
\* trit A; B = 0;
Example_Undeclared == <<"t", "r", "i", "t", " ", "A", ";", " ", "B", " ", "=", " ", "0", ";">>
\* trit A; A = TAND(A);
Example_TandArity == <<"t", "r", "i", "t", " ", "A", ";", " ", "A", " ", "=", " ", "T", "A", "N", "D", "(", "A", ")", ";">>
\* A = 0; trit A;
Example_Hoist == <<"A", " ", "=", " ", "0", ";", " ", "t", "r", "i", "t", " ", "A", ";">>
\* X = FOO(Y);
Example_FooY == <<"X", " ", "=", " ", "F", "O", "O", "(", "Y", ")", ";">>
\* trit A; trit B, A, C;
Example_Partial == <<"t", "r", "i", "t", " ", "A", ";", " ", "t", "r", "i", "t", " ", "B", ",", " ", "A", ",", " ", "C", ";">>
\* trit C, A; C = +1; A = C(C);
Example_Namespace == <<"t", "r", "i", "t", " ", "C", ",", " ", "A", ";", " ", "C", " ", "=", " ", "+", "1", ";", " ", "A", " ", "=", " ", "C", "(", "C", ")", ";">>
\* trit A; A = TAND;
Example_BareFunction == <<"t", "r", "i", "t", " ", "A", ";", " ", "A", " ", "=", " ", "T", "A", "N", "D", ";">>
\* trit F; F = F(F);
Example_VarCall == <<"t", "r", "i", "t", " ", "F", ";", " ", "F", " ", "=", " ", "F", "(", "F", ")", ";">>
ExampleSources ==
    {Example_X2, Example_AA, Example_SelfAssign, Example_Undeclared, Example_TandArity,
     Example_Hoist, Example_FooY, Example_Partial, Example_Namespace,
     Example_BareFunction, Example_VarCall}

Sources ==
    {JoinLines(ts) : ts \in SeqsUpTo(StmtTexts, MaxStmts)}
    \cup {TestSource(a, b) : a \in LitTexts, b \in LitTexts}
    \cup ExampleSources

\* Characters that short texts are made of: signs, digits, a letter, a
\* slash, a line end and a character of no token.
LexChars == {"+", "-", "0", "1", "A", "/", "\n", "@"}
CharTexts == SeqsUpTo(LexChars, MaxChars)

\* The words of ws one after the other.
RECURSIVE Concat(_)
Concat(ws) == IF ws = <<>> THEN <<>> ELSE Head(ws) \o Concat(Tail(ws))

\* Texts of tokens (a space ends a word that would otherwise run into the
\* next one), and the texts made of them.
W_trit == <<"t", "r", "i", "t", " ">>
W_A == <<"A", " ">>
W_0 == <<"0", " ">>
TokWords == {W_trit, W_A, <<"=">>, <<",">>, <<";">>, <<"(">>, <<")">>}
TokTexts == {Concat(ws) : ws \in SeqsUpTo(TokWords, MaxToks)}

\* Assignments "A = ... ;" with every right-hand side over ExprWords.
ExprWords == {W_A, W_0, <<",">>, <<"(">>, <<")">>}
ExprTexts ==
    {W_A \o <<"=">> \o Concat(ws) \o <<";">> : ws \in SeqsUpTo(ExprWords, MaxExpr)}

\* trit A; A = FOO();
Example_EmptyCall == <<"t", "r", "i", "t", " ", "A", ";", " ", "A", " ", "=", " ", "F", "O", "O", "(", ")", ";">>
\* trit A; A = TAND(C(N(A)), TNOT(+1));
Example_NestedCall == <<"t", "r", "i", "t", " ", "A", ";", " ", "A", " ", "=", " ", "T", "A", "N", "D", "(", "C", "(", "N", "(", "A", ")", ")", ",", " ", "T", "N", "O", "T", "(", "+", "1", ")", ")", ";">>
\* A = C(N());
Example_NestedEmpty == <<"A", " ", "=", " ", "C", "(", "N", "(", ")", ")", ";">>
\* X = -5;
Example_Digit5 == <<"X", " ", "=", " ", "-", "5", ";">>
\* //@\n2@
Example_TwoBad == <<"/", "/", "@", "\n", "2", "@">>
\* B = Y;
Example_BothUndeclared == <<"B", " ", "=", " ", "Y", ";">>
MoreSources ==
    {Example_EmptyCall, Example_NestedCall, Example_NestedEmpty,
     Example_Digit5, Example_TwoBad, Example_BothUndeclared}

ShortSources == CharTexts \cup TokTexts \cup ExprTexts \cup MoreSources \cup ExampleSources

\* Texts and offsets handed to _pos_to_line_col.
LineChars == {"A", " ", "\n"}
LineTexts == SeqsUpTo(LineChars, MaxLine)

\* The env argument of run_source: None, or an Env the caller built.
CallerEnvs == {None, (<<"A">> :> 1)}

\* Names and argument lists handed to apply_func directly.
FuncNames ==
    {<<"C">>, <<"N">>, <<"A">>, <<"T", "N", "O", "T">>,
     <<"T", "A", "N", "D">>, <<"T", "O", "R">>, <<"T", "N", "A", "N", "D">>,
     <<"T", "N", "O", "R">>, <<"T", "X", "O", "R">>, <<"T", "S", "U", "M">>,
     <<"T", "C", "A", "R", "R", "Y">>}
OtherNames == {<<"F", "O", "O">>, <<"t", "a", "n", "d">>, <<"T", "A", "N">>, <<>>}
ArgVals == (-MaxAbs)..MaxAbs
ArgLists == SeqsUpTo(ArgVals, MaxArgs)

---------------------------------------------------------------------------
(* The operator library called directly.                                   *)

OpsIdle ==
    /\ fname = <<>> /\ fargs = <<>> /\ fextra = 0 /\ fres = None /\ fhist = <<>>

PipeIdle ==
    /\ src = <<>> /\ envarg = None /\ pc = "idle" /\ i = 0 /\ tokens = <<>>
    /\ pos = 0 /\ statements = <<>> /\ stmtpos = <<>> /\ k = 0 /\ env = None
    /\ diag = None /\ result = None /\ failpos = -1 /\ ndiag = 0
    /\ assigned = <<>> /\ run = 1 /\ outcomes = <<>>

LocIdle == ltext = <<>> /\ loffset = 0 /\ lwhere = None

ThrIdle ==
    /\ heap = <<>> /\ tprog = <<>> /\ targ = <<>> /\ tenv = <<>>
    /\ tpc = <<>> /\ tk = <<>> /\ tdiag = <<>> /\ tresult = <<>>

InitOps ==
    /\ fname \in FuncNames \cup OtherNames
    /\ fargs \in ArgLists
    /\ fextra \in (IF Len(fargs) = 2 THEN ArgVals ELSE {0})
    /\ fres = None
    /\ fhist = <<>>
    /\ PipeIdle
    /\ LocIdle
    /\ ThrIdle

\* A caller calls apply_func(fname, fargs).
Apply ==
    /\ pc = "idle"
    /\ fres = None
    /\ fres' = apply_func(fname, fargs)
    /\ fhist' = <<[args |-> fargs, res |-> fres']>>
    /\ UNCHANGED <<fname, fargs, fextra, pipevars, locvars, thrvars>>

\* The caller feeds the value returned back to the same function: f(f(x))
\* for a one-argument call, f(f(a, b), c) with c = fextra for a two-argument
\* call.
ApplyToResult ==
    /\ pc = "idle"
    /\ fres # None
    /\ IsOk(fres)
    /\ Len(fhist) < MaxChain
    /\ Len(fargs) \in {1, 2}
    /\ LET args == IF Len(fargs) = 1 THEN <<fres.val>> ELSE <<fres.val, fextra>> IN
       /\ fargs' = args
       /\ fres' = apply_func(fname, args)
       /\ fhist' = Append(fhist, [args |-> args, res |-> fres'])
    /\ UNCHANGED <<fname, fextra, pipevars, locvars, thrvars>>

---------------------------------------------------------------------------
(* run_source: tokenize, parse, evaluate.                                  *)

\* A caller calls run_source(src, envarg).
InitRun ==
    /\ src \in Sources
    /\ envarg \in CallerEnvs
    /\ pc = "lex"
    /\ i = 0
    /\ tokens = <<>>
    /\ pos = 0
    /\ statements = <<>>
    /\ stmtpos = <<>>
    /\ k = 0
    /\ env = envarg
    /\ diag = None
    /\ result = None
    /\ failpos = -1
    /\ ndiag = 0
    /\ assigned = <<>>
    /\ run = 1
    /\ outcomes = <<>>
    /\ OpsIdle
    /\ LocIdle
    /\ ThrIdle

\* The run ends with exception e, raised for source offset p.
Fail(e, p) ==
    /\ pc' = "failed"
    /\ diag' = e
    /\ failpos' = p
    /\ ndiag' = ndiag + 1

\* tokenize: one iteration of "while i < n".
Tokenize_Step ==
    /\ pc = "lex"
    /\ i < Len(src)
    /\ LET r == LoopBody(src, i) IN
       IF r.tag = "raise"
       THEN /\ Fail(r.err, r.at)
            /\ UNCHANGED <<i, tokens>>
       ELSE /\ i' = r.i
            /\ tokens' = IF r.tag = "token" THEN Append(tokens, r.tok) ELSE tokens
            /\ UNCHANGED <<pc, diag, failpos, ndiag>>
    /\ UNCHANGED <<src, envarg, pos, statements, stmtpos, k, env, result,
                   assigned, run, outcomes, opsvars, locvars, thrvars>>

\* tokenize putting the EOF token on the last character, at offset n - 1.
Tokenize_End_last ==
    /\ pc = "lex"
    /\ i >= Len(src)
    /\ tokens' = Append(tokens, Token("EOF", <<>>, IF Len(src) = 0 THEN 0 ELSE Len(src) - 1))
    /\ pos' = 0
    /\ pc' = "parse"
    /\ UNCHANGED <<src, envarg, i, statements, stmtpos, k, env, diag, result,
                   failpos, ndiag, assigned, run, outcomes, opsvars, locvars, thrvars>>

\* tokenize: the loop is over; the EOF token is appended and the tokens go
\* to Parser(tokens, src).
Tokenize_End ==
    /\ pc = "lex"
    /\ i >= Len(src)
    /\ tokens' = Append(tokens, Token("EOF", <<>>, Len(src)))
    /\ pos' = 0
    /\ pc' = "parse"
    /\ UNCHANGED <<src, envarg, i, statements, stmtpos, k, env, diag, result,
                   failpos, ndiag, assigned, run, outcomes, opsvars, locvars, thrvars>>

\* A parser that hands each statement to the evaluator as soon as it has
\* parsed it.
Parse_Statement_eager ==
    /\ pc = "parse"
    /\ current(tokens, pos).kind # "EOF"
    /\ LET r == parse_statement(tokens, src, pos) IN
       IF IsOk(r)
       THEN /\ statements' = Append(statements, r.val)
            /\ stmtpos' = Append(stmtpos, current(tokens, pos).pos)
            /\ pos' = r.pos
            /\ env' = IF env = None THEN env ELSE eval_stmt(r.val, env).vars
            /\ UNCHANGED <<pc, diag, failpos, ndiag>>
       ELSE /\ Fail(r.err, r.at)
            /\ UNCHANGED <<statements, stmtpos, pos, env>>
    /\ UNCHANGED <<src, envarg, i, tokens, k, result, assigned, run,
                   outcomes, opsvars, locvars, thrvars>>

\* Parser.parse_program: one iteration of "while self.current.kind != 'EOF'".
Parse_Statement ==
    /\ pc = "parse"
    /\ current(tokens, pos).kind # "EOF"
    /\ LET r == parse_statement(tokens, src, pos) IN
       IF IsOk(r)
       THEN /\ statements' = Append(statements, r.val)
            /\ stmtpos' = Append(stmtpos, current(tokens, pos).pos)
            /\ pos' = r.pos
            /\ UNCHANGED <<pc, diag, failpos, ndiag>>
       ELSE /\ Fail(r.err, r.at)
            /\ UNCHANGED <<statements, stmtpos, pos>>
    /\ UNCHANGED <<src, envarg, i, tokens, k, env, result, assigned, run,
                   outcomes, opsvars, locvars, thrvars>>

\* eval_program making a new Env whatever env it was given.
Parse_End_fresh ==
    /\ pc = "parse"
    /\ current(tokens, pos).kind = "EOF"
    /\ env' = Env
    /\ k' = 0
    /\ pc' = "eval"
    /\ UNCHANGED <<src, envarg, i, tokens, pos, statements, stmtpos, diag,
                   result, failpos, ndiag, assigned, run, outcomes, opsvars, locvars, thrvars>>

\* parse_program handing over a Program with the declarations moved to the
\* front.
Parse_End_hoisting ==
    /\ pc = "parse"
    /\ current(tokens, pos).kind = "EOF"
    /\ LET IsDecl(st) == st.node = "Decl"
           IsOther(st) == st.node # "Decl"
       IN  statements' = SelectSeq(statements, IsDecl) \o SelectSeq(statements, IsOther)
    /\ env' = IF envarg = None THEN Env ELSE env
    /\ k' = 0
    /\ pc' = "eval"
    /\ UNCHANGED <<src, envarg, i, tokens, pos, stmtpos, diag,
                   result, failpos, ndiag, assigned, run, outcomes, opsvars, locvars, thrvars>>

\* Parser.parse_program returns the Program; run_source hands it to
\* eval_program, which makes an Env when it was given none.
Parse_End ==
    /\ pc = "parse"
    /\ current(tokens, pos).kind = "EOF"
    /\ env' = IF envarg = None THEN Env ELSE env
    /\ k' = 0
    /\ pc' = "eval"
    /\ UNCHANGED <<src, envarg, i, tokens, pos, statements, stmtpos, diag,
                   result, failpos, ndiag, assigned, run, outcomes, opsvars, locvars, thrvars>>

\* eval_program catching the exception of a statement and going on with the
\* next one.
Eval_Statement_recovering ==
    /\ pc = "eval"
    /\ k < Len(statements)
    /\ LET stmt == statements[k + 1]
           r == eval_stmt(stmt, env)
       IN  /\ k' = k + 1
           /\ env' = r.vars
           /\ IF IsOk(r)
              THEN /\ assigned' = IF stmt.node = "Assign"
                                  THEN [n \in (DOMAIN assigned) \cup {stmt.name} |->
                                           IF n = stmt.name
                                           THEN eval_expr(stmt.expr, env).val
                                           ELSE assigned[n]]
                                  ELSE assigned
                   /\ UNCHANGED <<pc, diag, failpos, ndiag>>
              ELSE /\ diag' = r.err
                   /\ failpos' = stmtpos[k + 1]
                   /\ ndiag' = ndiag + 1
                   /\ UNCHANGED <<pc, assigned>>
    /\ UNCHANGED <<src, envarg, i, tokens, pos, statements, stmtpos, result,
                   run, outcomes, opsvars, locvars, thrvars>>

\* eval_program: one iteration of "for stmt in program.statements".
Eval_Statement ==
    /\ pc = "eval"
    /\ k < Len(statements)
    /\ LET stmt == statements[k + 1]
           r == eval_stmt(stmt, env)
       IN  /\ k' = k + 1
           /\ env' = r.vars
           /\ IF IsOk(r)
              THEN /\ assigned' = IF stmt.node = "Assign"
                                  THEN DictSet(assigned, stmt.name,
                                               eval_expr(stmt.expr, env).val)
                                  ELSE assigned
                   /\ UNCHANGED <<pc, diag, failpos, ndiag>>
              ELSE /\ Fail(r.err, stmtpos[k + 1])
                   /\ UNCHANGED assigned
    /\ UNCHANGED <<src, envarg, i, tokens, pos, statements, stmtpos, result,
                   run, outcomes, opsvars, locvars, thrvars>>

\* eval_program: the loop is over; the Env is returned.
Eval_Return ==
    /\ pc = "eval"
    /\ k >= Len(statements)
    /\ result' = env
    /\ pc' = "done"
    /\ UNCHANGED <<src, envarg, i, tokens, pos, statements, stmtpos, k, env,
                   diag, failpos, ndiag, assigned, run, outcomes, opsvars, locvars, thrvars>>

\* What a finished run leaves to its caller.
Outcome == [pc |-> pc, result |-> result, diag |-> diag, env |-> env]

\* The caller runs the same source text again: against no environment when
\* it gave none before, against its own Env object otherwise.
Run_Again ==
    /\ pc \in {"done", "failed"}
    /\ run < MaxRuns
    /\ run' = run + 1
    /\ outcomes' = Append(outcomes, Outcome)
    /\ envarg' = IF envarg = None THEN None ELSE env
    /\ env' = IF envarg = None THEN None ELSE env
    /\ pc' = "lex"
    /\ i' = 0
    /\ tokens' = <<>>
    /\ pos' = 0
    /\ statements' = <<>>
    /\ stmtpos' = <<>>
    /\ k' = 0
    /\ diag' = None
    /\ result' = None
    /\ failpos' = -1
    /\ ndiag' = 0
    /\ assigned' = <<>>
    /\ UNCHANGED <<src, opsvars, locvars, thrvars>>

\* A caller calls run_source(src) on a short text, once.
InitTexts ==
    /\ src \in ShortSources
    /\ envarg = None
    /\ pc = "lex"
    /\ i = 0
    /\ tokens = <<>>
    /\ pos = 0
    /\ statements = <<>>
    /\ stmtpos = <<>>
    /\ k = 0
    /\ env = None
    /\ diag = None
    /\ result = None
    /\ failpos = -1
    /\ ndiag = 0
    /\ assigned = <<>>
    /\ run = 1
    /\ outcomes = <<>>
    /\ OpsIdle
    /\ LocIdle
    /\ ThrIdle

NextTexts ==
    \/ Tokenize_Step
    \/ Tokenize_End
    \/ Parse_Statement
    \/ Parse_End
    \/ Eval_Statement
    \/ Eval_Return

SpecTexts == InitTexts /\ [][NextTexts]_vars

\* The same with a run that goes on as long as it has a step to take, on
\* every short text but the one with calls nested three deep.
InitTextsFair == InitTexts /\ src # Example_NestedCall

SpecTextsFair == InitTextsFair /\ [][NextTexts]_vars /\ WF_vars(NextTexts)

---------------------------------------------------------------------------
(* Two programs run one after the other on one environment.                *)

\* The statement texts the chained programs are made of:
\* trit A;   trit B,A;   A=-1;   B=C(A);
ChainStmts ==
    {<<"t", "r", "i", "t", " ", "A", ";">>,
     <<"t", "r", "i", "t", " ", "B", ",", "A", ";">>,
     <<"A", "=", "-", "1", ";">>,
     <<"B", "=", "C", "(", "A", ")", ";">>}
ChainTexts == {JoinLines(ts) : ts \in SeqsUpTo(ChainStmts, MaxStmts)}

\* A caller calls run_source(src, envarg) on the first program.
InitChain ==
    /\ src \in ChainTexts
    /\ envarg \in CallerEnvs
    /\ pc = "lex"
    /\ i = 0
    /\ tokens = <<>>
    /\ pos = 0
    /\ statements = <<>>
    /\ stmtpos = <<>>
    /\ k = 0
    /\ env = envarg
    /\ diag = None
    /\ result = None
    /\ failpos = -1
    /\ ndiag = 0
    /\ assigned = <<>>
    /\ run = 1
    /\ outcomes = <<>>
    /\ OpsIdle
    /\ LocIdle
    /\ ThrIdle

\* The first run has returned its Env; the caller calls run_source on a
\* second program with that Env.
Run_Chained ==
    /\ pc = "done"
    /\ run = 1
    /\ run' = run + 1
    /\ outcomes' = Append(outcomes, [src |-> src, statements |-> statements,
                                     start |-> IF envarg = None THEN Env ELSE envarg,
                                     result |-> result])
    /\ src' \in ChainTexts
    /\ envarg' = result
    /\ env' = result
    /\ pc' = "lex"
    /\ i' = 0
    /\ tokens' = <<>>
    /\ pos' = 0
    /\ statements' = <<>>
    /\ stmtpos' = <<>>
    /\ k' = 0
    /\ diag' = None
    /\ result' = None
    /\ failpos' = -1
    /\ ndiag' = 0
    /\ assigned' = <<>>
    /\ UNCHANGED <<opsvars, locvars, thrvars>>

NextChain ==
    \/ Tokenize_Step
    \/ Tokenize_End
    \/ Parse_Statement
    \/ Parse_End
    \/ Eval_Statement
    \/ Eval_Return
    \/ Run_Chained

SpecChain == InitChain /\ [][NextChain]_vars

---------------------------------------------------------------------------
(* The position mapping called directly.                                   *)

\* A caller is about to call _pos_to_line_col(text, offset).
InitLocate ==
    /\ ltext \in LineTexts
    /\ loffset \in 0..Len(ltext)
    /\ lwhere = None
    /\ OpsIdle
    /\ PipeIdle
    /\ ThrIdle

Locate ==
    /\ pc = "idle"
    /\ lwhere = None
    /\ lwhere' = _pos_to_line_col(ltext, loffset)
    /\ UNCHANGED <<ltext, loffset, opsvars, pipevars, thrvars>>

NextLocate == Locate

SpecLocate == InitLocate /\ [][NextLocate]_vars

---------------------------------------------------------------------------
(* eval_program called by two threads, each with its own Env.              *)

Threads == {1, 2}

\* The statements the threads' programs are made of:
\* trit A;   A = +1;   A = C(A);
ThreadStmts ==
    {Decl(<<"t", "r", "i", "t">>, <<<<"A">>>>),
     Assign(<<"A">>, TritLiteral(1)),
     Assign(<<"A">>, FuncCall(<<"C">>, <<Name(<<"A">>)>>))}
ThreadPrograms == SeqsUpTo(ThreadStmts, MaxStmts)

\* Env() with one Env object for every caller: the object made first is
\* handed out again.
Env_init_shared(h) ==
    IF h = <<>> THEN [heap |-> <<Env>>, ref |-> 1] ELSE [heap |-> h, ref |-> 1]

\* Env(): a new object, with its own dict, among the objects h.
Env_init(h) == [heap |-> Append(h, Env), ref |-> Len(h) + 1]

\* Two threads are about to call eval_program(Program(tprog[t]), env), each
\* with env=None or with an Env object of its own.
InitThreads ==
    /\ tprog \in [Threads -> ThreadPrograms]
    /\ targ \in [Threads -> CallerEnvs]
    /\ heap = (IF targ[1] = None THEN <<>> ELSE <<targ[1]>>)
                \o (IF targ[2] = None THEN <<>> ELSE <<targ[2]>>)
    /\ tenv = [t \in Threads |->
                  IF targ[t] = None THEN 0
                  ELSE IF t = 1 \/ targ[1] = None THEN 1 ELSE 2]
    /\ tpc = [t \in Threads |-> "call"]
    /\ tk = [t \in Threads |-> 0]
    /\ tdiag = [t \in Threads |-> None]
    /\ tresult = [t \in Threads |-> 0]
    /\ OpsIdle
    /\ PipeIdle
    /\ LocIdle

\* eval_program: "if env is None: env = Env()".
Thread_Enter ==
    \E t \in Threads :
        /\ tpc[t] = "call"
        /\ IF tenv[t] = 0
           THEN LET made == Env_init(heap) IN
                /\ heap' = made.heap
                /\ tenv' = [tenv EXCEPT ![t] = made.ref]
           ELSE UNCHANGED <<heap, tenv>>
        /\ tpc' = [tpc EXCEPT ![t] = "eval"]
        /\ UNCHANGED <<tprog, targ, tk, tdiag, tresult, opsvars, pipevars, locvars>>

\* eval_program: one iteration of "for stmt in program.statements" on a
\* thread.
Thread_Statement ==
    \E t \in Threads :
        /\ tpc[t] = "eval"
        /\ tk[t] < Len(tprog[t])
        /\ LET r == eval_stmt(tprog[t][tk[t] + 1], heap[tenv[t]]) IN
           /\ heap' = [heap EXCEPT ![tenv[t]] = r.vars]
           /\ tk' = [tk EXCEPT ![t] = tk[t] + 1]
           /\ IF IsOk(r)
              THEN UNCHANGED <<tpc, tdiag>>
              ELSE /\ tpc' = [tpc EXCEPT ![t] = "failed"]
                   /\ tdiag' = [tdiag EXCEPT ![t] = r.err]
        /\ UNCHANGED <<tprog, targ, tenv, tresult, opsvars, pipevars, locvars>>

\* eval_program: "return env" on a thread.
Thread_Return ==
    \E t \in Threads :
        /\ tpc[t] = "eval"
        /\ tk[t] >= Len(tprog[t])
        /\ tresult' = [tresult EXCEPT ![t] = tenv[t]]
        /\ tpc' = [tpc EXCEPT ![t] = "done"]
        /\ UNCHANGED <<heap, tprog, targ, tenv, tk, tdiag, opsvars, pipevars, locvars>>

NextThreads ==
    \/ Thread_Enter
    \/ Thread_Statement
    \/ Thread_Return

SpecThreads == InitThreads /\ [][NextThreads]_vars

\* The package is entered through apply_func or through run_source.
Init == InitOps \/ InitRun

Next ==
    \/ Apply
    \/ ApplyToResult
    \/ Tokenize_Step
    \/ Tokenize_End
    \/ Parse_Statement
    \/ Parse_End
    \/ Eval_Statement
    \/ Eval_Return
    \/ Run_Again

Spec == Init /\ [][Next]_vars

---------------------------------------------------------------------------
(* Properties of the operator library (apply_func called directly).        *)

F_C == <<"C">>
F_N == <<"N">>
F_A == <<"A">>
F_TNOT == <<"T", "N", "O", "T">>
F_TAND == <<"T", "A", "N", "D">>
F_TOR == <<"T", "O", "R">>
F_TNAND == <<"T", "N", "A", "N", "D">>
F_TNOR == <<"T", "N", "O", "R">>
F_TXOR == <<"T", "X", "O", "R">>
F_TSUM == <<"T", "S", "U", "M">>
F_TCARRY == <<"T", "C", "A", "R", "R", "Y">>
UnaryNames == {F_C, F_N, F_A, F_TNOT}
BinaryNames == {F_TAND, F_TOR, F_TNAND, F_TNOR, F_TXOR, F_TSUM, F_TCARRY}

\* The documented tables: row a, column b, both in the order -1, 0, +1.
DocTXOR == <<<<0, -1, 1>>, <<-1, 0, -1>>, <<1, -1, 0>>>>
DocTSUM == <<<<0, -1, 0>>, <<-1, 0, 1>>, <<0, 1, 0>>>>
DocTCARRY == <<<<-1, 0, 0>>, <<0, 0, 0>>, <<0, 0, 1>>>>
Entry(table, a, b) == table[a + 2][b + 2]
Least(S) == CHOOSE m \in S : \A y \in S : m <= y
Greatest(S) == CHOOSE m \in S : \A y \in S : y <= m

\* apply_func was called, first on argument list fhist[1].args.
Applied == pc = "idle" /\ fres # None
FirstArgs == fhist[1].args
TritArgs(args) == \A j \in 1..Len(args) : args[j] \in Trits

\* C5: for every trit x, C maps -1 to 0, 0 to +1 and +1 to -1, so that
\* C(C(C(x))) = x; N(x) = -1; A(x) = +1; TNOT(x) = -x, so that
\* TNOT(TNOT(x)) = x and TNOT(0) = 0.
C5_UnaryLaws ==
    (Applied /\ Len(FirstArgs) = 1 /\ TritArgs(FirstArgs)) =>
        LET x == FirstArgs[1]
            n == Len(fhist)
        IN  /\ fname = F_C =>
                /\ fhist[1].res = Ok(IF x = -1 THEN 0 ELSE IF x = 0 THEN 1 ELSE -1)
                /\ n >= 3 => fhist[3].res = Ok(x)
            /\ fname = F_N => \A j \in 1..n : fhist[j].res = Ok(-1)
            /\ fname = F_A => \A j \in 1..n : fhist[j].res = Ok(1)
            /\ fname = F_TNOT =>
                /\ fhist[1].res = Ok(0 - x)
                /\ x = 0 => fhist[1].res = Ok(0)
                /\ n >= 2 => fhist[2].res = Ok(x)

\* C applied three times in a row, starting from -1, is back at -1.
C5_Witness ==
    /\ Applied /\ fname = F_C /\ Len(fhist) = 3
    /\ fhist[1].args = <<-1>> /\ fhist[2].args = <<0>> /\ fhist[3].args = <<1>>
    /\ fres = Ok(-1)

\* C6: for all nine pairs (a, b) of trits each binary function equals its
\* definition: TAND = min, TOR = max, TNAND = -min, TNOR = -max, and TXOR,
\* TSUM, TCARRY equal the entry at row a, column b of their documented table.
C6_BinaryDefinitions ==
    (Applied /\ Len(FirstArgs) = 2 /\ TritArgs(FirstArgs)) =>
        LET a == FirstArgs[1]
            b == FirstArgs[2]
            r == fhist[1].res
        IN  /\ fname = F_TAND => r = Ok(Least({a, b}))
            /\ fname = F_TOR => r = Ok(Greatest({a, b}))
            /\ fname = F_TNAND => r = Ok(0 - Least({a, b}))
            /\ fname = F_TNOR => r = Ok(0 - Greatest({a, b}))
            /\ fname = F_TXOR => r = Ok(Entry(DocTXOR, a, b))
            /\ fname = F_TSUM => r = Ok(Entry(DocTSUM, a, b))
            /\ fname = F_TCARRY => r = Ok(Entry(DocTCARRY, a, b))

\* TNOR(0, +1) was computed and is -1.
C6_Witness ==
    /\ Applied /\ fname = F_TNOR /\ FirstArgs = <<0, 1>> /\ Len(fhist) = 1
    /\ fres = Ok(-1)

\* C7: for all trits a, b, c, TAND and TOR are commutative and associative;
\* TXOR, TSUM and TCARRY are commutative.  f(a, b) is the first application,
\* f(f(a, b), c) the second, with c = fextra.
C7_CommutativeAssociative ==
    (Applied /\ Len(FirstArgs) = 2 /\ TritArgs(FirstArgs) /\ fextra \in Trits) =>
        LET a == FirstArgs[1]
            b == FirstArgs[2]
            c == fextra
        IN  /\ fname \in {F_TAND, F_TOR, F_TXOR, F_TSUM, F_TCARRY} =>
                /\ IsOk(fhist[1].res)
                /\ fhist[1].res = apply_func(fname, <<b, a>>)
            /\ (fname \in {F_TAND, F_TOR} /\ Len(fhist) >= 2) =>
                /\ IsOk(fhist[2].res)
                /\ fhist[2].res = apply_func(fname, <<a, apply_func(fname, <<b, c>>).val>>)

\* TAND(TAND(+1, -1), 0) was computed.
C7_Witness ==
    /\ Applied /\ fname = F_TAND /\ Len(fhist) >= 2
    /\ FirstArgs = <<1, -1>> /\ fextra = 0 /\ fhist[2].args = <<-1, 0>>
    /\ fhist[2].res = Ok(-1)

\* C8: TSUM and TCARRY together compute single-digit balanced-ternary
\* addition: for all trits a, b, a + b = TSUM(a, b) + 3 * TCARRY(a, b).
C8_HalfAdder ==
    (Applied /\ fname = F_TSUM /\ Len(FirstArgs) = 2 /\ TritArgs(FirstArgs)) =>
        LET a == FirstArgs[1]
            b == FirstArgs[2]
            carry == apply_func(F_TCARRY, <<a, b>>)
        IN  /\ IsOk(fhist[1].res) /\ IsOk(carry)
            /\ a + b = fhist[1].res.val + 3 * carry.val

\* The arity of each of the eleven functions.
DocArity(name) == IF name \in UnaryNames THEN 1 ELSE 2

IsRuntimeError(r, statement) ==
    /\ r.tag = "raise"
    /\ r.err.cls = "TrineDSLRuntimeError"
    /\ r.err.error_type = "Runtime Error"
    /\ r.err.error_statement = statement

\* C9: each of the eleven operator functions is total over the trit domain
\* and defensive outside it: with every argument a trit it returns a trit,
\* with any argument outside {-1, 0, +1} it fails with the Runtime error
\* 'Invalid Trit Value' instead of returning a value.
C9_TotalAndDefensive ==
    Applied =>
        \A j \in 1..Len(fhist) :
            LET args == fhist[j].args
                r == fhist[j].res
            IN  (fname \in FuncNames /\ Len(args) = DocArity(fname)) =>
                    /\ TritArgs(args) => (IsOk(r) /\ r.val \in Trits)
                    /\ ~TritArgs(args) => IsRuntimeError(r, "Invalid Trit Value")

\* N was handed 2 and failed.
C9_Witness ==
    /\ Applied /\ fname = F_N /\ FirstArgs = <<2>>
    /\ IsRuntimeError(fres, "Invalid Trit Value")

\* The function each of the eleven names stands for, applied to args.
DocFunction(name, args) ==
    CASE name = F_C -> op_C(args[1])
      [] name = F_N -> op_N(args[1])
      [] name = F_A -> op_A(args[1])
      [] name = F_TNOT -> op_TNOT(args[1])
      [] name = F_TAND -> op_TAND(args[1], args[2])
      [] name = F_TOR -> op_TOR(args[1], args[2])
      [] name = F_TNAND -> op_TNAND(args[1], args[2])
      [] name = F_TNOR -> op_TNOR(args[1], args[2])
      [] name = F_TXOR -> op_TXOR(args[1], args[2])
      [] name = F_TSUM -> op_TSUM(args[1], args[2])
      [] name = F_TCARRY -> op_TCARRY(args[1], args[2])

\* The run of the current source text is over.
RunOver == pc \in {"done", "failed"}

\* C10: apply_func resolves by exact name.  A name that is none of the eleven
\* fails with 'Unknown Function' whatever the argument count; a known name
\* with an argument count other than its arity fails with 'Wrong Number of
\* Arguments' stating the expected and the actual count, whatever the
\* argument values; otherwise the function's own result is returned.
\* "trit A; A = TAND(A);" fails stating that TAND expects 2 and got 1.
C10_Dispatcher ==
    /\ Applied =>
        \A j \in 1..Len(fhist) :
            LET args == fhist[j].args
                r == fhist[j].res
            IN  /\ fname \notin FuncNames => IsRuntimeError(r, "Unknown Function")
                /\ (fname \in FuncNames /\ Len(args) # DocArity(fname)) =>
                    /\ IsRuntimeError(r, "Wrong Number of Arguments")
                    /\ r.err.description.args =
                           <<fname, <<Digits[DocArity(fname) + 1]>>, <<Digits[Len(args) + 1]>>>>
                /\ (fname \in FuncNames /\ Len(args) = DocArity(fname)) =>
                    r = DocFunction(fname, args)
    /\ (RunOver /\ src = Example_TandArity /\ envarg = None) =>
        /\ pc = "failed"
        /\ IsRuntimeError(Raise(diag), "Wrong Number of Arguments")
        /\ diag.description.args = <<F_TAND, <<"2">>, <<"1">>>>

\* The run of "trit A; A = TAND(A);" ended in the arity error.
C10_Witness ==
    /\ pc = "failed" /\ src = Example_TandArity /\ envarg = None /\ k = 2
    /\ diag.error_statement = "Wrong Number of Arguments"

---------------------------------------------------------------------------
(* Properties of run_source.                                               *)

V_A == <<"A">>
V_B == <<"B">>
V_S == <<"S">>
V_C == <<"C">>

\* The names a program declares: those listed by its Decl statements.
DeclaredNames(stmts) ==
    UNION {{stmts[j].names[m] : m \in 1..Len(stmts[j].names)} :
              j \in {h \in 1..Len(stmts) : stmts[h].node = "Decl"}}

\* The value a trit literal text denotes.
DocLiteral(text) ==
    CASE text = <<"-", "1">> -> -1
      [] text = <<"0">> -> 0
      [] text = <<"+", "1">> -> 1

\* C1: a successful run against a fresh environment returns an environment
\* whose keys are exactly the declared names, each mapped to the value of the
\* last assignment executed for it, or 0 if it was never assigned.
\* "trit A; A = A;" leaves A = 0; the program of test.py with literals a, b
\* yields {A: a, B: b, S: TSUM(a, b), C: TCARRY(a, b)}, which for a = -1,
\* b = +1 is {A: -1, B: +1, S: 0, C: 0}.
C1_FinalEnvironment ==
    /\ (pc = "done" /\ envarg = None) =>
        /\ result # None
        /\ DOMAIN result = DeclaredNames(statements)
        /\ \A n \in DOMAIN result :
               result[n] = IF n \in DOMAIN assigned THEN assigned[n] ELSE 0
    /\ (RunOver /\ envarg = None /\ src = Example_SelfAssign) =>
        /\ pc = "done"
        /\ result = (V_A :> 0)
    /\ (RunOver /\ envarg = None /\ Len(src) > 0 /\ src[1] = "\n") =>
        \A a \in LitTexts, b \in LitTexts :
            src = TestSource(a, b) =>
                /\ pc = "done"
                /\ result = (V_A :> DocLiteral(a) @@ V_B :> DocLiteral(b)
                             @@ V_S :> Entry(DocTSUM, DocLiteral(a), DocLiteral(b))
                             @@ V_C :> Entry(DocTCARRY, DocLiteral(a), DocLiteral(b)))
    /\ (RunOver /\ envarg = None /\ src = TestSource(<<"-", "1">>, <<"+", "1">>)) =>
        result = (V_A :> -1 @@ V_B :> 1 @@ V_S :> 0 @@ V_C :> 0)

\* The program of test.py has run, with +1 and -1, and returned its Env.
C1_Witness ==
    /\ pc = "done" /\ envarg = None /\ run = 1
    /\ src = TestSource(<<"+", "1">>, <<"-", "1">>)
    /\ result = (V_A :> 1 @@ V_B :> -1 @@ V_S :> 0 @@ V_C :> 0)
    /\ assigned = result

\* The statements of stmts evaluated one after the other from the j-th on,
\* up to and including the first one that raises: its index (0 if none
\* raises), the exception, and the dict as it is left.
RECURSIVE RefEval(_, _, _)
RefEval(stmts, j, vs) ==
    IF j > Len(stmts) THEN [first |-> 0, err |-> None, vars |-> vs]
    ELSE LET r == eval_stmt(stmts[j], vs) IN
         IF IsOk(r) THEN RefEval(stmts, j + 1, r.vars)
         ELSE [first |-> j, err |-> r.err, vars |-> r.vars]

\* The dict eval_program starts from.
StartVars == IF envarg = None THEN <<>> ELSE envarg

\* C2: evaluation is fail-fast.  A failing run produces exactly one
\* diagnostic, raised by the first statement in source order whose evaluation
\* fails; no statement after that one is evaluated, so the environment shows
\* no effect of a later statement, and no environment is returned.
C2_FailFast ==
    /\ diag = None => (ndiag = 0 /\ pc # "failed")
    /\ diag # None =>
        /\ pc = "failed"
        /\ ndiag = 1
        /\ result = None
        /\ diag.cls = "TrineDSLRuntimeError" =>
            LET ref == RefEval(statements, 1, StartVars) IN
            /\ ref.first = k
            /\ ref.err = diag
            /\ ref.vars = env

\* "A=A;" failed as the first statement with "trit A;" after it; A is not
\* declared.
C2_Witness ==
    /\ pc = "failed" /\ diag.cls = "TrineDSLRuntimeError" /\ envarg = None
    /\ k = 1 /\ Len(statements) = 2 /\ statements[2].node = "Decl"
    /\ env = <<>> /\ result = None

\* The lines of a text: the texts between its "\n" characters.
RECURSIVE RefLines(_)
RefLines(s) ==
    LET nls == {j \in 1..Len(s) : s[j] = "\n"} IN
    IF nls = {} THEN <<s>>
    ELSE LET j == Least(nls) IN
         <<SubSeq(s, 1, j - 1)>> \o RefLines(SubSeq(s, j + 1, Len(s)))

\* The offset of column c of line l: every line before it, with its "\n".
RECURSIVE RefOffset(_, _, _)
RefOffset(lines, l, c) ==
    IF l = 1 THEN c - 1 ELSE Len(lines[1]) + 1 + RefOffset(Tail(lines), l - 1, c)

\* Diagnostic d points at offset p of text s and quotes that line.
RefPointsAt(d, s, p) ==
    LET lines == RefLines(s) IN
    /\ d.line \in 1..Len(lines)
    /\ d.column \in 1..(Len(lines[d.line]) + 1)
    /\ RefOffset(lines, d.line, d.column) = p
    /\ d.line_text = lines[d.line]

C4_Deterministic ==
    /\ (RunOver /\ envarg = None /\ run > 1) => Outcome = outcomes[run - 1]
    /\ (pc = "eval" /\ k = 0 /\ envarg = None) => env = <<>>

\* A second run that returned a non-empty environment.
C4_Witness ==
    /\ pc = "done" /\ envarg = None /\ run = 2
    /\ result # <<>> /\ outcomes[1].pc = "done"

---------------------------------------------------------------------------
(* Calls with an empty argument list.                                      *)

\* The kinds of the tokens from index t on are those of ks.
KindsAt(t, ks) ==
    /\ t >= 1
    /\ t + Len(ks) - 1 <= Len(tokens)
    /\ \A h \in 1..Len(ks) : tokens[t + h - 1].kind = ks[h]

\* Token t begins a statement "x = f ( ) ;".
EmptyCallStatementAt(t) ==
    /\ KindsAt(t, <<"IDENT", "EQUAL", "IDENT", "LPAREN", "RPAREN", "SEMI">>)
    /\ (t = 1 \/ tokens[t - 1].kind = "SEMI")

\* The expression whose evaluation comes first when expr is evaluated: the
\* innermost first argument.
RECURSIVE EvaluatedFirst(_)
EvaluatedFirst(expr) ==
    IF expr.node = "FuncCall" /\ expr.args # <<>>
    THEN EvaluatedFirst(expr.args[1])
    ELSE expr

IsEmptyCall(expr) == expr.node = "FuncCall" /\ expr.args = <<>>

\* The parser accepts "x = f ( ) ;" wherever a statement may begin: no Parse
\* diagnostic points into it, and once read it is the statement
\* Assign(x, FuncCall(f, [])).
EmptyCallAccepted ==
    \A t \in 1..Len(tokens) :
        EmptyCallStatementAt(t) =>
            /\ (diag # None /\ diag.cls = "TrineDSLParseError") =>
                   \A h \in t..(t + 5) : failpos # tokens[h].pos
            /\ (pc \in {"parse", "eval", "done"} /\ pos >= t + 5) =>
                   \E j \in 1..Len(statements) :
                       /\ stmtpos[j] = tokens[t].pos
                       /\ statements[j] =
                              Assign(tokens[t].value, FuncCall(tokens[t + 2].value, <<>>))

\* The k-th statement was the last one evaluated and the first thing
\* evaluated in it was a call f().
EmptyCallEvaluated ==
    /\ pc \in {"eval", "done", "failed"}
    /\ k >= 1
    /\ diag = None \/ diag.cls = "TrineDSLRuntimeError"
    /\ statements[k].node = "Assign"
    /\ IsEmptyCall(EvaluatedFirst(statements[k].expr))

\* C11, as claimed: a call f() is accepted by the parser for every
\* identifier f, and evaluating it always fails with the arity error
\* 'Wrong Number of Arguments' of the dispatcher.
C11_EmptyCallArityError ==
    /\ EmptyCallAccepted
    /\ EmptyCallEvaluated =>
        /\ pc = "failed"
        /\ diag.error_statement = "Wrong Number of Arguments"

\* C11, amended: a call f() is accepted by the parser for every identifier
\* f, and evaluating it always fails: with 'Wrong Number of Arguments'
\* (expected arity, 0 provided) when f is one of the eleven function names,
\* with 'Unknown Function' for any other identifier.
C11_EmptyCallFails ==
    /\ EmptyCallAccepted
    /\ EmptyCallEvaluated =>
        LET f == EvaluatedFirst(statements[k].expr).func IN
        /\ pc = "failed"
        /\ f \in FuncNames =>
               /\ diag.error_statement = "Wrong Number of Arguments"
               /\ diag.description.args = <<f, IntStr(DocArity(f)), <<"0">>>>
        /\ f \notin FuncNames =>
               /\ diag.error_statement = "Unknown Function"
               /\ diag.description.args = <<f>>

\* "trit A; A = FOO();" was parsed and its second statement failed.
C11_Witness ==
    /\ src = Example_EmptyCall
    /\ pc = "failed" /\ k = 2
    /\ EmptyCallStatementAt(4)
    /\ statements[2] = Assign(V_A, FuncCall(<<"F", "O", "O">>, <<>>))
    /\ diag.error_statement = "Unknown Function"

---------------------------------------------------------------------------
(* The lexer.                                                              *)

RefSigns == {"+", "-"}
RefDigits == {"0", "1", "2", "3", "4", "5", "6", "7", "8", "9"}

\* The maximal run at offset j of s: an optional sign, then every decimal
\* digit up to the first character that is none.
RefRun(s, j) ==
    LET d0 == IF s[j + 1] \in RefSigns THEN j + 1 ELSE j
        stops == {h \in d0..Len(s) : h = Len(s) \/ s[h + 1] \notin RefDigits}
    IN  SubSeq(s, j + 1, Least(stops))

\* tokenize is at the first character of a run.
AtRun ==
    /\ pc = "lex"
    /\ i < Len(src)
    /\ src[i + 1] \in RefSigns \cup RefDigits

\* C12: in tokenize, a maximal run of an optional '+' or '-' followed by
\* decimal digits produces a trit-literal token if and only if its text is
\* exactly '-1', '0' or '+1'; any other run, and a sign followed by no
\* digit, fails with Lex 'Invalid Trit Literal' at the line and column of
\* the first character of the run.  "trit X; X = 2;" fails pointing at the 2.
C12_TritLiteralRuns ==
    [][ /\ AtRun =>
            LET lit == RefRun(src, i) IN
            IF lit \in {<<"-", "1">>, <<"0">>, <<"+", "1">>}
            THEN /\ pc' = "lex"
                 /\ diag' = None
                 /\ tokens' = Append(tokens, [kind |-> "TRIT", value |-> lit, pos |-> i])
                 /\ i' = i + Len(lit)
            ELSE /\ pc' = "failed"
                 /\ tokens' = tokens
                 /\ diag'.cls = "TrineDSLLexError"
                 /\ diag'.error_statement = "Invalid Trit Literal"
                 /\ RefPointsAt(diag', src, i)
        /\ (src = Example_X2 /\ pc = "lex" /\ pc' # "lex") =>
            /\ pc' = "failed"
            /\ diag'.error_statement = "Invalid Trit Literal"
            /\ diag'.line = 1 /\ diag'.column = 13
      ]_vars

\* "X = -5;" failed at its sign.
C12_Witness ==
    /\ src = Example_Digit5
    /\ pc = "failed"
    /\ diag.error_statement = "Invalid Trit Literal"
    /\ diag.line = 1 /\ diag.column = 5
    /\ RefRun(src, 4) = <<"-", "5">>

RefBlanks == {" ", "\t", "\n", "\r"}
RefSymbols == {"=", ",", ";", "(", ")"}
RefWordStart == AlphaChars \cup {"_"}
RefWordPart == RefWordStart \cup RefDigits

\* The first offset from j on whose character is not in S (the length of s
\* if there is none).
RefSpan(s, j, S) ==
    Least({h \in j..Len(s) : h = Len(s) \/ s[h + 1] \notin S})

\* The construct that begins at offset j of s, and the offset just after it.
RefConstruct(s, j) ==
    LET ch == s[j + 1] IN
    IF ch \in RefBlanks THEN [class |-> "blank", end |-> j + 1]
    ELSE IF ch = "/" /\ j + 1 < Len(s) /\ s[j + 2] = "/"
         THEN [class |-> "comment",
               end |-> Least({h \in (j + 2)..Len(s) : h = Len(s) \/ s[h + 1] = "\n"})]
    ELSE IF ch \in RefSymbols THEN [class |-> "symbol", end |-> j + 1]
    ELSE IF ch \in RefSigns \cup RefDigits
         THEN [class |-> "run", end |-> j + Len(RefRun(s, j))]
    ELSE IF ch \in RefWordStart
         THEN [class |-> "word", end |-> RefSpan(s, j + 1, RefWordPart)]
    ELSE [class |-> "other", end |-> j + 1]

\* The construct at offset j is invalid: a run that is no trit literal, or a
\* character of no construct.
RefInvalid(s, j) ==
    LET c == RefConstruct(s, j) IN
    \/ c.class = "other"
    \/ c.class = "run" /\ SubSeq(s, j + 1, c.end) \notin {<<"-", "1">>, <<"0">>, <<"+", "1">>}

\* The offsets, from j on, of the invalid constructs outside comments.
RECURSIVE RefInvalidFrom(_, _)
RefInvalidFrom(s, j) ==
    IF j >= Len(s) THEN {}
    ELSE IF RefInvalid(s, j)
         THEN {j} \cup RefInvalidFrom(s, j + 1)
         ELSE RefInvalidFrom(s, RefConstruct(s, j).end)

LexFailed == pc = "failed" /\ diag.cls = "TrineDSLLexError"

\* C13: tokenize stops at the first invalid construct: the single Lex
\* diagnostic is for the invalid construct at the smallest offset, and
\* nothing after it is scanned.  A character outside a comment that is not
\* whitespace, one of = , ; ( ), a sign, a digit, a letter or underscore
\* (a '/' not followed by a second '/' is one) fails with 'Unexpected
\* Character' at that character's own line and column.
C13_FirstInvalidConstruct ==
    LET bad == RefInvalidFrom(src, 0) IN
    /\ (pc \notin {"lex", "idle"} /\ ~LexFailed) => bad = {}
    /\ LexFailed =>
        /\ bad # {}
        /\ failpos = Least(bad)
        /\ ndiag = 1
        /\ i = failpos
        /\ \A t \in 1..Len(tokens) : tokens[t].pos < failpos
        /\ statements = <<>>
        /\ RefPointsAt(diag, src, failpos)
        /\ diag.error_statement = "Unexpected Character"
               <=> RefConstruct(src, failpos).class = "other"
        /\ diag.error_statement = "Unexpected Character"
               => diag.description.args = <<<<src[failpos + 1]>>>>
    /\ (pc = "lex" /\ bad # {}) => i <= Least(bad)

\* "//@\n2@": the '@' of the comment is skipped, the run "2" fails, and the
\* '@' after it is never scanned.
C13_Witness ==
    /\ src = Example_TwoBad
    /\ LexFailed
    /\ RefInvalidFrom(src, 0) = {4, 5}
    /\ failpos = 4
    /\ diag.line = 2 /\ diag.column = 1

\* tokenize has returned its list of tokens.
Tokenized == pc \in {"parse", "eval", "done"} \/ (pc = "failed" /\ ~LexFailed)

\* C14: whenever tokenize succeeds, the returned sequence contains exactly
\* one end-of-input token, it is the last token, and its offset is the length
\* of the source; the tokens before it have strictly increasing offsets, and
\* the text of each equals the source substring that starts at its offset.
C14_TokenStream ==
    /\ pc = "lex" => \A t \in 1..Len(tokens) : tokens[t].kind # "EOF"
    /\ Tokenized =>
        LET n == Len(tokens) IN
        /\ n >= 1
        /\ tokens[n] = [kind |-> "EOF", value |-> <<>>, pos |-> Len(src)]
        /\ \A t \in 1..(n - 1) :
               /\ tokens[t].kind # "EOF"
               /\ tokens[t].value # <<>>
               /\ tokens[t].pos >= 0
               /\ tokens[t].pos + Len(tokens[t].value) <= Len(src)
               /\ SubSeq(src, tokens[t].pos + 1, tokens[t].pos + Len(tokens[t].value))
                      = tokens[t].value
        /\ \A t \in 1..(n - 1) : tokens[t].pos < tokens[t + 1].pos

\* A text of three tokens that are not next to each other, then EOF.
C14_Witness ==
    /\ pc = "parse"
    /\ Len(tokens) = 4
    /\ tokens[4].kind = "EOF" /\ tokens[4].pos = Len(src)
    /\ tokens[2].pos > tokens[1].pos + Len(tokens[1].value)
    /\ tokens[4].pos > tokens[3].pos + Len(tokens[3].value)

---------------------------------------------------------------------------
(* The position mapping.                                                   *)

Located == pc = "idle" /\ lwhere # None

\* C15: for every text and every offset p with 0 <= p <= length of the
\* text, the position mapping returns line = 1 + the number of '\n' strictly
\* before p, column = p - the offset of the first character of that line + 1,
\* and line text = the whole '\n'-delimited line without any '\n'.  Hence
\* line >= 1, column >= 1 and column - 1 <= length of the line text, also
\* when p is the offset of a '\n' or the end of the text.
C15_PositionMapping ==
    Located =>
        LET lines == RefLines(ltext)
            before == {h \in 1..loffset : ltext[h] = "\n"}
            first == IF before = {} THEN 0 ELSE Greatest(before)
        IN  /\ lwhere.line = 1 + Cardinality(before)
            /\ lwhere.column = loffset - first + 1
            /\ lwhere.line_text = lines[lwhere.line]
            /\ \A h \in 1..Len(lwhere.line_text) : lwhere.line_text[h] # "\n"
            /\ lwhere.line >= 1
            /\ lwhere.column >= 1
            /\ lwhere.column - 1 <= Len(lwhere.line_text)
            /\ RefPointsAt(lwhere, ltext, loffset)

\* The offset is that of the '\n' that ends a second line of two
\* characters.
C15_Witness ==
    /\ Located
    /\ loffset < Len(ltext)
    /\ ltext[loffset + 1] = "\n"
    /\ lwhere.line = 2 /\ lwhere.column = 3
    /\ Len(lwhere.line_text) = 2

---------------------------------------------------------------------------
(* The parser.                                                             *)

\* The grammar
\*   Program ::= { Statement }        Statement ::= (DeclStmt | AssignStmt) ';'
\*   DeclStmt ::= DeclKeyword Ident { ',' Ident }
\*   AssignStmt ::= Ident '=' Expr
\*   Expr ::= TritLiteral | Ident [ '(' [ Expr { ',' Expr } ] ')' ]
\* as a machine over token kinds: where in a statement the reader is, and
\* how many '(' are open.  Every state but "stuck" can be continued to a
\* derivable sequence.
RefState(mode, depth) == [mode |-> mode, depth |-> depth]
RefStep(st, kind) ==
    LET m == st.mode
        d == st.depth
    IN  CASE m = "start" /\ kind = "KW_TRIT" -> RefState("decl", 0)
          [] m = "start" /\ kind = "IDENT" -> RefState("target", 0)
          [] m = "start" /\ kind = "EOF" -> RefState("accept", 0)
          [] m = "decl" /\ kind = "IDENT" -> RefState("declared", 0)
          [] m = "declared" /\ kind = "COMMA" -> RefState("decl", 0)
          [] m = "declared" /\ kind = "SEMI" -> RefState("start", 0)
          [] m = "target" /\ kind = "EQUAL" -> RefState("expr", 0)
          [] m \in {"expr", "open"} /\ kind = "TRIT" -> RefState("value", d)
          [] m \in {"expr", "open"} /\ kind = "IDENT" -> RefState("name", d)
          [] m = "open" /\ kind = "RPAREN" -> RefState("value", d - 1)
          [] m = "name" /\ kind = "LPAREN" -> RefState("open", d + 1)
          [] m \in {"name", "value"} /\ d = 0 /\ kind = "SEMI" -> RefState("start", 0)
          [] m \in {"name", "value"} /\ d > 0 /\ kind = "COMMA" -> RefState("expr", d)
          [] m \in {"name", "value"} /\ d > 0 /\ kind = "RPAREN" -> RefState("value", d - 1)
          [] OTHER -> RefState("stuck", 0)

\* The state after the first t tokens of toks.
RECURSIVE RefAfter(_, _)
RefAfter(toks, t) ==
    IF t = 0 THEN RefState("start", 0)
    ELSE LET before == RefAfter(toks, t - 1) IN
         IF before.mode \in {"stuck", "accept"} THEN RefState("stuck", 0)
         ELSE RefStep(before, toks[t].kind)

RefDerivable(toks) == RefAfter(toks, Len(toks)).mode = "accept"

\* The first token at which the tokens read so far stop being the prefix of
\* a derivable sequence; 0 if there is none.
RefFirstStuck(toks) ==
    LET stuck == {t \in 1..Len(toks) : RefAfter(toks, t).mode = "stuck"} IN
    IF stuck = {} THEN 0 ELSE Least(stuck)

\* The tokens, kind and text, that an AST is the derivation of.
RefTok(kind, value) == [kind |-> kind, value |-> value]
RefLiteralText(v) ==
    CASE v = -1 -> <<"-", "1">>
      [] v = 0 -> <<"0">>
      [] v = 1 -> <<"+", "1">>
RECURSIVE RefExprTokens(_)
RECURSIVE RefArgsTokens(_)
RefExprTokens(e) ==
    IF e.node = "TritLiteral" THEN <<RefTok("TRIT", RefLiteralText(e.value))>>
    ELSE IF e.node = "Name" THEN <<RefTok("IDENT", e.name)>>
    ELSE <<RefTok("IDENT", e.func), RefTok("LPAREN", <<"(">>)>>
         \o RefArgsTokens(e.args) \o <<RefTok("RPAREN", <<")">>)>>
RefArgsTokens(args) ==
    IF args = <<>> THEN <<>>
    ELSE IF Len(args) = 1 THEN RefExprTokens(args[1])
    ELSE RefExprTokens(args[1]) \o <<RefTok("COMMA", <<",">>)>> \o RefArgsTokens(Tail(args))
RECURSIVE RefNamesTokens(_)
RefNamesTokens(names) ==
    IF Len(names) = 1 THEN <<RefTok("IDENT", names[1])>>
    ELSE <<RefTok("IDENT", names[1]), RefTok("COMMA", <<",">>)>> \o RefNamesTokens(Tail(names))
RefStmtTokens(stmt) ==
    (IF stmt.node = "Decl"
     THEN <<RefTok("KW_TRIT", <<"t", "r", "i", "t">>)>> \o RefNamesTokens(stmt.names)
     ELSE <<RefTok("IDENT", stmt.name), RefTok("EQUAL", <<"=">>)>> \o RefExprTokens(stmt.expr))
    \o <<RefTok("SEMI", <<";">>)>>
RECURSIVE RefProgramTokens(_)
RefProgramTokens(stmts) ==
    IF stmts = <<>> THEN <<>>
    ELSE RefStmtTokens(Head(stmts)) \o RefProgramTokens(Tail(stmts))

ParseFailed == pc = "failed" /\ diag.cls = "TrineDSLParseError"
ParseReturned == pc \in {"eval", "done"} \/ (pc = "failed" /\ diag.cls = "TrineDSLRuntimeError")

\* What holds of the parser in every state.
ParserMirrorsGrammar ==
    Tokenized =>
        /\ pos \in 0..(Len(tokens) - 1)
        /\ RefProgramTokens(statements)
               = [t \in 1..pos |-> RefTok(tokens[t].kind, tokens[t].value)]
        /\ RefAfter(tokens, pos).mode = "start"
        /\ ParseReturned =>
               /\ RefDerivable(tokens)
               /\ pos = Len(tokens) - 1
        /\ ParseFailed =>
               LET t == RefFirstStuck(tokens) IN
               /\ ~RefDerivable(tokens)
               /\ t > pos
               /\ failpos = tokens[t].pos
               /\ RefPointsAt(diag, src, failpos)

\* What holds of every step of the parser.
ParserNeverGoesBack ==
    pc = "parse" =>
        /\ pos' >= pos
        /\ Len(statements') > Len(statements) => pos' > pos
        /\ pc' = "failed" => failpos' >= tokens[pos + 1].pos

\* C16: parse succeeds on a token sequence ending with end-of-input if and
\* only if the sequence is derivable from the grammar; on success the AST
\* mirrors the derivation (statements, declared names and call arguments in
\* source order, calls nested to any depth); on failure the Parse diagnostic
\* is located at the first token at which the tokens read so far stop being
\* a prefix of any derivable sequence; the token index never decreases.
C16_ParserFollowsGrammar ==
    /\ []ParserMirrorsGrammar
    /\ [][ParserNeverGoesBack]_vars

\* "trit A; A = TAND(C(N(A)), TNOT(+1));" was parsed.
C16_Witness ==
    /\ src = Example_NestedCall
    /\ pc = "eval"
    /\ Len(statements) = 2
    /\ statements[1] = Decl(<<"t", "r", "i", "t">>, <<V_A>>)
    /\ statements[2] =
           Assign(V_A,
                  FuncCall(<<"T", "A", "N", "D">>,
                           <<FuncCall(V_C, <<FuncCall(<<"N">>, <<Name(V_A)>>)>>),
                             FuncCall(<<"T", "N", "O", "T">>, <<TritLiteral(1)>>)>>))

\* The token a Parse diagnostic is raised for, and where the grammar was
\* when it came.
OffendingToken == tokens[RefFirstStuck(tokens)]
StateBeforeOffending == RefAfter(tokens, RefFirstStuck(tokens) - 1)

\* The cause label of each Parse failure, by where the grammar was.
RefCause(st) ==
    CASE st.mode = "start" -> "Unexpected Token at Statement Start"
      [] st.mode = "target" -> "Expected '=' After Identifier"
      [] st.mode = "decl" -> "Expected Identifier in Declaration"
      [] st.mode \in {"expr", "open"} -> "Unexpected Token in Expression"
      [] st.mode = "declared" -> "Missing Semicolon"
      [] st.mode \in {"name", "value"} /\ st.depth = 0 -> "Missing Semicolon"
      [] st.mode \in {"name", "value"} /\ st.depth > 0 -> "Missing Closing Parenthesis"

FourCauses ==
    {"Missing Semicolon", "Expected '=' After Identifier",
     "Missing Closing Parenthesis", "Unexpected Token at Statement Start"}

\* A missing ';', a missing '=', a missing ')' and an unexpected token at
\* statement start each have their own cause label.
ParseCausesDistinct ==
    ParseFailed => diag.error_statement = RefCause(StateBeforeOffending)

\* The diagnostic of each of the four reports the offending token: its kind
\* and its text are in the description.
ParseCausesReportToken ==
    (ParseFailed /\ diag.error_statement \in FourCauses) =>
        LET said == {diag.description.args[h] : h \in 1..Len(diag.description.args)} IN
        /\ OffendingToken.value \in said
        /\ <<OffendingToken.kind>> \in said

\* C17: the four Parse failures (a missing terminating ';', a missing '=' in
\* an assignment, a missing closing ')' in a call, an unexpected token at
\* statement start) each have their own distinct cause label, and the
\* diagnostic of every one of the four reports the kind and the text of the
\* actual offending token.
C17_FourParseCauses ==
    /\ ParseCausesDistinct
    /\ ParseCausesReportToken

\* A complete declaration or assignment body has been read and the next
\* token neither continues it nor is the ';'.
BodyNotTerminated ==
    /\ ParseFailed
    /\ \/ StateBeforeOffending.mode = "declared"
       \/ StateBeforeOffending.mode \in {"name", "value"} /\ StateBeforeOffending.depth = 0

\* C18: when a complete declaration or assignment body is followed by a
\* token other than ';', parse fails with the Parse cause 'Missing Semicolon'
\* whose line and column are those of that following token: for
\* "trit A A = 0;" the second A; when the statement is the last thing in the
\* source, the end-of-input token, at offset = length of the source.
C18_MissingSemicolon ==
    /\ BodyNotTerminated =>
        /\ diag.error_statement = "Missing Semicolon"
        /\ OffendingToken.kind # "SEMI"
        /\ failpos = OffendingToken.pos
        /\ RefPointsAt(diag, src, OffendingToken.pos)
        /\ OffendingToken.kind = "EOF" => failpos = Len(src)
    /\ (ParseFailed /\ diag.error_statement = "Missing Semicolon") => BodyNotTerminated
    /\ (src = Example_AA /\ Tokenized /\ pc # "parse") =>
        /\ ParseFailed
        /\ diag.error_statement = "Missing Semicolon"
        /\ OffendingToken = [kind |-> "IDENT", value |-> V_A, pos |-> 7]
        /\ diag.line = 1 /\ diag.column = 8

\* A declaration was the last thing in the source: the diagnostic is at the
\* end-of-input token, after the blank that ends the text.
C18_Witness ==
    /\ BodyNotTerminated
    /\ statements = <<>>
    /\ tokens[1].kind = "KW_TRIT"
    /\ OffendingToken.kind = "EOF"
    /\ failpos = Len(src)
    /\ diag.column = Len(diag.line_text) + 1
    /\ src[Len(src)] = " "

---------------------------------------------------------------------------
(* Declarations and assignments.                                           *)

\* eval_program is about to evaluate a statement of the given kind.
Evaluating(node) ==
    /\ pc = "eval"
    /\ k < Len(statements)
    /\ statements[k + 1].node = node

\* C19: evaluating a declaration declares its names left to right: a name
\* not in the environment is inserted with value 0; a name already there
\* (declared by an earlier statement, present in a caller-supplied
\* environment, or listed earlier in the same list, as in "trit A, A;")
\* fails with Runtime 'Redeclaration of Variable', and the value stored for
\* that name is not changed.
C19_Declaration ==
    [][ Evaluating("Decl") =>
            LET names == statements[k + 1].names
                present == {m \in 1..Len(names) :
                               \/ names[m] \in DOMAIN env
                               \/ \E h \in 1..(m - 1) : names[h] = names[m]}
                upto == IF present = {} THEN Len(names) ELSE Least(present) - 1
                inserted == {names[h] : h \in 1..upto}
            IN  /\ env' = [n \in (DOMAIN env) \cup inserted |->
                               IF n \in DOMAIN env THEN env[n] ELSE 0]
                /\ IF present = {}
                   THEN pc' = "eval" /\ diag' = None
                   ELSE /\ pc' = "failed"
                        /\ diag'.cls = "TrineDSLRuntimeError"
                        /\ diag'.error_statement = "Redeclaration of Variable"
                        /\ diag'.description.args = <<names[Least(present)]>>
      ]_vars

\* "trit B,A;" against a caller's environment {A: 1}: B was inserted with 0,
\* then A failed and kept its 1.
C19_Witness ==
    /\ pc = "failed"
    /\ diag.error_statement = "Redeclaration of Variable"
    /\ diag.description.args = <<V_A>>
    /\ envarg = (V_A :> 1)
    /\ statements[k] = Decl(<<"t", "r", "i", "t">>, <<V_B, V_A>>)
    /\ env = (V_A :> 1 @@ V_B :> 0)

\* C20: an assignment whose target is absent from the environment fails with
\* Runtime 'Assignment to Undeclared Variable' naming the target
\* ("trit A; B = 0;" names B), and a reference to an absent name fails with
\* 'Use of Undeclared Variable'.  The expression is evaluated before the
\* target is checked: when both the target and a referenced name are
\* undeclared, the failure is 'Use of Undeclared Variable'.
C20_UndeclaredNames ==
    [][ Evaluating("Assign") =>
            LET stmt == statements[k + 1]
                first == EvaluatedFirst(stmt.expr)
                absent == first.node = "Name" /\ first.name \notin DOMAIN env
            IN  /\ stmt.name \notin DOMAIN env => (pc' = "failed" /\ env' = env)
                /\ (stmt.name \notin DOMAIN env /\ IsOk(eval_expr(stmt.expr, env))) =>
                       /\ diag'.cls = "TrineDSLRuntimeError"
                       /\ diag'.error_statement = "Assignment to Undeclared Variable"
                       /\ diag'.description.args = <<stmt.name>>
                /\ absent =>
                       /\ pc' = "failed"
                       /\ env' = env
                       /\ diag'.cls = "TrineDSLRuntimeError"
                       /\ diag'.error_statement = "Use of Undeclared Variable"
                       /\ diag'.description.args = <<first.name>>
                /\ (src = Example_Undeclared /\ k = 1) =>
                       /\ pc' = "failed"
                       /\ diag'.error_statement = "Assignment to Undeclared Variable"
                       /\ diag'.description.args = <<V_B>>
      ]_vars

\* "B=FOO(Y);" with neither B nor Y declared failed for Y.
C20_Witness ==
    /\ pc = "failed"
    /\ diag # None
    /\ k \in 1..Len(statements)
    /\ statements[k] = Assign(V_B, FuncCall(<<"F", "O", "O">>, <<Name(<<"Y">>)>>))
    /\ V_B \notin DOMAIN env
    /\ diag.error_statement = "Use of Undeclared Variable"
    /\ diag.description.args = <<<<"Y">>>>

---------------------------------------------------------------------------
(* Runs on two threads.                                                    *)

\* What thread t's call of eval_program produces when it is the only one
\* running.
Alone(t) == RefEval(tprog[t], 1, IF targ[t] = None THEN <<>> ELSE targ[t])

\* C21: two runs whose statement steps are interleaved in any order, each on
\* its own environment instance, do not interfere: the environment a run
\* returns, or the diagnostic it ends with and the environment it leaves,
\* are those the run produces when executed alone, and stay so whatever the
\* other run does afterwards.
C21_NoInterference ==
    \A t \in Threads :
        /\ tpc[t] = "done" =>
               /\ Alone(t).first = 0
               /\ tdiag[t] = None
               /\ tresult[t] = tenv[t]
               /\ heap[tresult[t]] = Alone(t).vars
        /\ tpc[t] = "failed" =>
               /\ Alone(t).first = tk[t]
               /\ tdiag[t] = Alone(t).err
               /\ tresult[t] = 0
               /\ heap[tenv[t]] = Alone(t).vars

\* Thread 1 has returned {A: +1} from "trit A; A = +1;" although thread 2,
\* running "trit A; A = C(A);" on an Env of its own, is between its two
\* statements with A = 0.
C21_Witness ==
    /\ tpc = <<"done", "eval">>
    /\ tk = <<2, 1>>
    /\ targ = <<None, None>>
    /\ tprog[2] = <<Decl(<<"t", "r", "i", "t">>, <<V_A>>),
                    Assign(V_A, FuncCall(F_C, <<Name(V_A)>>))>>
    /\ tenv[1] # tenv[2]
    /\ heap[tresult[1]] = (<<"A">> :> 1)
    /\ heap[tenv[2]] = (<<"A">> :> 0)

---------------------------------------------------------------------------
(* Termination.                                                            *)

\* The run is over: run_source returned or raised.
Terminated == pc \in {"done", "failed"}

\* An iteration of the loop of tokenize that does not raise moves the offset
\* forward, and not beyond the end of the text.
LexerAdvances ==
    (pc = "lex" /\ pc' = "lex") => (i < i' /\ i' <= Len(src))

\* An iteration of the loop of parse_program that does not raise consumes at
\* least one token, and the parser stays on or before the EOF token.
ParserConsumes ==
    (pc = "parse" /\ pc' = "parse") =>
        /\ pos < pos'
        /\ pos' < Len(tokens)
        /\ Len(statements') = Len(statements) + 1

\* An iteration of the loop of eval_program evaluates the next statement,
\* and none twice: the count of statements begun goes up by one and stays
\* within the program.
EvaluatorVisitsOnce ==
    (pc = "eval" /\ pc' # "done") =>
        /\ k' = k + 1
        /\ k' <= Len(statements)
        /\ statements' = statements

\* A finished stage is not entered again.
StageRank(p) ==
    CASE p = "lex" -> 1 [] p = "parse" -> 2 [] p = "eval" -> 3 [] OTHER -> 4
StagesInOrder == StageRank(pc) <= StageRank(pc')

---------------------------------------------------------------------------
(* Order of evaluation.                                                    *)

\* The names a statement declares or assigns.
NamesOf(stmt) ==
    IF stmt.node = "Decl" THEN {stmt.names[m] : m \in 1..Len(stmt.names)}
    ELSE {stmt.name}

\* The names known when statement k + 1 is about to be evaluated: those of
\* the environment the run started from and of the declarations before it.
KnownNames == (DOMAIN StartVars) \cup DeclaredNames(SubSeq(statements, 1, k))

\* C23: statements take effect strictly in source order, one after the
\* other: the environment after a statement is the environment before it
\* with only that statement's names affected, and declarations are not
\* hoisted: a name declared only by a later statement is not in the
\* environment, and a statement that assigns to or reads such a name fails.
\* "A = 0; trit A;" fails with 'Assignment to Undeclared Variable'.
C23_SourceOrder ==
    [][ (pc = "eval" /\ k < Len(statements)) =>
            LET stmt == statements[k + 1]
                first == IF stmt.node = "Assign" THEN EvaluatedFirst(stmt.expr)
                         ELSE TritLiteral(0)
            IN  /\ k' = k + 1
                /\ statements' = statements
                /\ DOMAIN env \subseteq KnownNames
                /\ \A n \in ((DOMAIN env) \cup (DOMAIN env')) \ NamesOf(stmt) :
                       /\ n \in DOMAIN env
                       /\ n \in DOMAIN env'
                       /\ env'[n] = env[n]
                /\ (stmt.node = "Assign" /\ stmt.name \notin KnownNames) => pc' = "failed"
                /\ (first.node = "Name" /\ first.name \notin KnownNames) => pc' = "failed"
                /\ (src = Example_Hoist /\ envarg = None) =>
                       /\ k = 0
                       /\ pc' = "failed"
                       /\ diag'.error_statement = "Assignment to Undeclared Variable"
                       /\ env' = env
      ]_vars

\* "A = 0; trit A;" failed at its first statement; the declaration of A
\* after it was not evaluated.
C23_Witness ==
    /\ pc = "failed"
    /\ src = Example_Hoist /\ envarg = None
    /\ Len(statements) = 2
    /\ statements[1] = Assign(V_A, TritLiteral(0))
    /\ statements[2] = Decl(<<"t", "r", "i", "t">>, <<V_A>>)
    /\ k = 1
    /\ diag.error_statement = "Assignment to Undeclared Variable"
    /\ env = <<>>

\* The failure of an expression in environment e, by the order the language
\* gives: the arguments of a call from left to right, each in full, and
\* after them the call itself, by its name and then by its argument count.
\* None when nothing fails.
RECURSIVE RefFailure(_, _)
RefFailure(expr, e) ==
    IF expr.node = "Name"
    THEN IF expr.name \in DOMAIN e THEN None
         ELSE [statement |-> "Use of Undeclared Variable", about |-> expr.name]
    ELSE IF expr.node = "TritLiteral" THEN None
    ELSE LET failing == {j \in 1..Len(expr.args) : RefFailure(expr.args[j], e) # None} IN
         IF failing # {} THEN RefFailure(expr.args[Least(failing)], e)
         ELSE IF expr.func \notin FuncNames
         THEN [statement |-> "Unknown Function", about |-> expr.func]
         ELSE IF Len(expr.args) # DocArity(expr.func)
         THEN [statement |-> "Wrong Number of Arguments", about |-> expr.func]
         ELSE None

\* C24: a call evaluates all of its arguments left to right and only then
\* dispatches on the function name: of several failing arguments the
\* leftmost one's error is reported, and a failing argument is reported in
\* preference to 'Unknown Function' or 'Wrong Number of Arguments' of the
\* enclosing call.  "X = FOO(Y);" with Y undeclared fails with 'Use of
\* Undeclared Variable'.
C24_ArgumentsBeforeDispatch ==
    [][ Evaluating("Assign") =>
            LET stmt == statements[k + 1]
                f == RefFailure(stmt.expr, env)
            IN  /\ f # None =>
                       /\ pc' = "failed"
                       /\ diag'.cls = "TrineDSLRuntimeError"
                       /\ diag'.error_statement = f.statement
                       /\ diag'.description.args[1] = f.about
                /\ (f = None /\ pc' = "failed") =>
                       diag'.error_statement = "Assignment to Undeclared Variable"
                /\ (src = Example_FooY /\ envarg = None) =>
                       /\ pc' = "failed"
                       /\ diag'.error_statement = "Use of Undeclared Variable"
                       /\ diag'.description.args = <<<<"Y">>>>
      ]_vars

\* "A=TSUM(A,B);" with neither A nor B declared failed for A, the left
\* argument.
C24_Witness ==
    /\ pc = "failed"
    /\ diag # None
    /\ k \in 1..Len(statements)
    /\ statements[k] = Assign(V_A, FuncCall(F_TSUM, <<Name(V_A), Name(V_B)>>))
    /\ env = <<>>
    /\ diag.error_statement = "Use of Undeclared Variable"
    /\ diag.description.args = <<V_A>>

---------------------------------------------------------------------------
(* The stages of a run.                                                    *)

\* A text with a grammar violation ("trit A A = 0;") on its first line and
\* a character of no token ("A=@;") on its second.
ParseThenLexError ==
    Example_AA \o <<"\n">> \o <<"A", "=", "@", ";">>

\* C25: the stages run to completion one after the other: the whole source
\* is tokenized before parsing starts, and the whole token stream is parsed
\* before any statement is evaluated.  A source with a lex error anywhere
\* ends with a Lex diagnostic, even when a grammar violation occurs at an
\* earlier offset; a source with a lex or parse error leaves the caller's
\* environment unchanged, even when valid statements precede the error.
C25_StagesInTurn ==
    /\ pc = "lex" => (pos = 0 /\ statements = <<>>)
    /\ pc \in {"lex", "parse"} => (k = 0 /\ env = envarg /\ assigned = <<>>)
    /\ pc \in {"parse", "eval", "done"} =>
           /\ i >= Len(src)
           /\ tokens # <<>>
           /\ tokens[Len(tokens)].kind = "EOF"
    /\ pc \in {"eval", "done"} =>
           /\ pos = Len(tokens) - 1
           /\ RefDerivable(tokens)
    /\ (RunOver /\ RefInvalidFrom(src, 0) # {}) =>
           /\ pc = "failed"
           /\ diag.cls = "TrineDSLLexError"
    /\ (pc = "failed" /\ diag.cls \in {"TrineDSLLexError", "TrineDSLParseError"}) =>
           /\ env = envarg
           /\ k = 0
    /\ (RunOver /\ src = ParseThenLexError) => diag.cls = "TrineDSLLexError"

\* The text with the grammar violation before the '@' ended with a Lex
\* diagnostic for the '@', and the caller's {A: 1} is as it was.
C25_Witness ==
    /\ pc = "failed"
    /\ src = ParseThenLexError
    /\ diag.cls = "TrineDSLLexError"
    /\ failpos = Len(Example_AA) + 3
    /\ envarg # None /\ envarg = (V_A :> 1)
    /\ env # None /\ env = (V_A :> 1)

---------------------------------------------------------------------------
(* The trit domain.                                                        *)

\* The values of the literals of an expression.
RECURSIVE RefLiterals(_)
RefLiterals(expr) ==
    IF expr.node = "TritLiteral" THEN {expr.value}
    ELSE IF expr.node = "FuncCall"
         THEN UNION {RefLiterals(expr.args[j]) : j \in 1..Len(expr.args)}
    ELSE {}

\* The Runtime causes that a run of source text can end with.
ReachableRuntimeCauses ==
    {"Redeclaration of Variable", "Assignment to Undeclared Variable",
     "Use of Undeclared Variable", "Wrong Number of Arguments", "Unknown Function"}

\* C26: starting from an environment whose values are all trits, or from a
\* fresh one, after any sequence of runs of source text every value stored
\* in the environment and every literal of the AST is in {-1, 0, +1}, and
\* every declaration has type trit.  So a run never ends with 'Invalid Trit
\* Value', 'Invalid Trit Literal', 'Unsupported Type' or 'Internal Error':
\* the Runtime causes it can end with are 'Redeclaration of Variable',
\* 'Assignment to Undeclared Variable', 'Use of Undeclared Variable', 'Wrong
\* Number of Arguments' and 'Unknown Function'.
C26_TritDomain ==
    /\ env # None => \A n \in DOMAIN env : env[n] \in {-1, 0, 1}
    /\ result # None => \A n \in DOMAIN result : result[n] \in {-1, 0, 1}
    /\ \A j \in 1..Len(statements) :
           /\ statements[j].node \in {"Decl", "Assign"}
           /\ statements[j].node = "Decl" =>
                  statements[j].type_name = <<"t", "r", "i", "t">>
           /\ statements[j].node = "Assign" =>
                  RefLiterals(statements[j].expr) \subseteq {-1, 0, 1}
    /\ (diag # None /\ diag.cls = "TrineDSLRuntimeError") =>
           diag.error_statement \in ReachableRuntimeCauses

\* The second run of "A=-1;" and "A=A;" on the caller's environment, which
\* held {A: 1} before the first, returned {A: -1}.
C26_Witness ==
    /\ pc = "done" /\ run = 2
    /\ envarg # None /\ envarg = (V_A :> -1)
    /\ statements = <<Assign(V_A, TritLiteral(-1)), Assign(V_A, Name(V_A))>>
    /\ outcomes[1].pc = "done"
    /\ result = (V_A :> -1)

---------------------------------------------------------------------------
(* Chained runs.                                                           *)

\* The second of two chained runs is over.
ChainOver == run = 2 /\ RunOver

\* The program whose statements are those of the first program followed by
\* those of the second, evaluated against the environment the first run
\* started from.
Concatenated ==
    RefEval(outcomes[1].statements \o statements, 1, outcomes[1].start)

\* C27: chaining runs on one environment is equivalent to concatenating
\* programs: if P1 succeeds on e, evaluating P2 against the environment P1
\* left behind gives the same final environment, or the same diagnostic, as
\* evaluating against e the program whose statements are P1's followed by
\* P2's.  Running a program with a declaration again on the environment it
\* has just produced fails with 'Redeclaration of Variable'.
C27_ChainIsConcatenation ==
    /\ (ChainOver /\ pc = "done") =>
           /\ Concatenated.first = 0
           /\ Concatenated.vars = result
    /\ (ChainOver /\ pc = "failed") =>
           /\ diag.cls = "TrineDSLRuntimeError"
           /\ Concatenated.first = Len(outcomes[1].statements) + k
           /\ Concatenated.err = diag
           /\ Concatenated.vars = env
    /\ (ChainOver /\ src = outcomes[1].src
            /\ \E j \in 1..Len(outcomes[1].statements) :
                   outcomes[1].statements[j].node = "Decl") =>
           /\ pc = "failed"
           /\ diag.error_statement = "Redeclaration of Variable"

\* "trit B,A;" ran on a fresh environment, and "A=-1;" and "B=C(A);" then
\* ran on what it returned.
C27_Witness ==
    /\ ChainOver /\ pc = "done"
    /\ outcomes[1].start = <<>>
    /\ outcomes[1].statements = <<Decl(<<"t", "r", "i", "t">>, <<V_B, V_A>>)>>
    /\ Len(statements) = 2
    /\ result = (V_A :> -1 @@ V_B :> op_C(-1).val)

---------------------------------------------------------------------------
(* The effect of statements on the environment.                            *)

\* C28: evaluating an expression never modifies the environment.  A
\* successful assignment changes the value of its target name only: the key
\* set and every other name's value stay as they were.  A failing
\* assignment, by a failure inside its expression or by an undeclared
\* target, leaves the environment exactly as it was before the statement.
C28_AssignmentEffect ==
    [][ Evaluating("Assign") =>
            LET stmt == statements[k + 1]
                value == eval_expr(stmt.expr, env)
            IN  /\ pc' = "failed" => env' = env
                /\ ~IsOk(value) => (pc' = "failed" /\ diag' = value.err)
                /\ pc' # "failed" =>
                       /\ IsOk(value)
                       /\ stmt.name \in DOMAIN env
                       /\ DOMAIN env' = DOMAIN env
                       /\ env'[stmt.name] = value.val
                       /\ \A n \in (DOMAIN env) \ {stmt.name} : env'[n] = env[n]
      ]_vars

\* In the program of test.py, "B = +1;" has just been evaluated: B is +1,
\* A is still -1, S and C are still 0.
C28_Witness ==
    /\ pc = "eval"
    /\ src = TestSource(<<"-", "1">>, <<"+", "1">>)
    /\ k = 3
    /\ statements[3] = Assign(V_B, TritLiteral(1))
    /\ env = (V_A :> -1 @@ V_B :> 1 @@ V_S :> 0 @@ V_C :> 0)

\* C29: a declaration with several names is not atomic: when a name of the
\* list fails as a redeclaration, the new names listed before it stay
\* declared with value 0 and the names listed after it are not declared.
\* The set of declared names never shrinks under a statement, failing or
\* not.
C29_PartialDeclaration ==
    [][ (pc = "eval" /\ k < Len(statements)) =>
            /\ DOMAIN env \subseteq DOMAIN env'
            /\ (statements[k + 1].node = "Decl" /\ pc' = "failed") =>
                   LET names == statements[k + 1].names
                       m == Least({h \in 1..Len(names) :
                                       \/ names[h] \in DOMAIN env
                                       \/ \E g \in 1..(h - 1) : names[g] = names[h]})
                       before == {names[h] : h \in 1..(m - 1)}
                       after == {names[h] : h \in (m + 1)..Len(names)}
                   IN  /\ diag'.error_statement = "Redeclaration of Variable"
                       /\ diag'.description.args = <<names[m]>>
                       /\ DOMAIN env' = (DOMAIN env) \cup before
                       /\ \A n \in before \ DOMAIN env : env'[n] = 0
                       /\ \A n \in DOMAIN env : env'[n] = env[n]
                       /\ \A n \in after \ ((DOMAIN env) \cup before) : n \notin DOMAIN env'
            /\ (src = Example_Partial /\ envarg = None /\ k = 1) =>
                   /\ pc' = "failed"
                   /\ env' = (V_A :> 0 @@ V_B :> 0)
      ]_vars

\* "trit A; trit B, A, C;" failed at the second A: B is declared, C is not.
C29_Witness ==
    /\ pc = "failed"
    /\ src = Example_Partial /\ envarg = None
    /\ k = 2
    /\ statements[2].names = <<V_B, V_A, V_C>>
    /\ diag.error_statement = "Redeclaration of Variable"
    /\ diag.description.args = <<V_A>>
    /\ env = (V_A :> 0 @@ V_B :> 0)

---------------------------------------------------------------------------
(* Function names and variable names.                                      *)

\* The values of the arguments of a call, when every one has a value.
ArgValues(expr, e) == [j \in 1..Len(expr.args) |-> eval_expr(expr.args[j], e)]
ArgsHaveValues(expr, e) == \A j \in 1..Len(expr.args) : IsOk(ArgValues(expr, e)[j])

\* C30: function names and variable names live in separate namespaces.  An
\* identifier followed by "(" is resolved in the operator table, whatever
\* the environment holds under that name; an identifier not followed by "("
\* is resolved in the environment, whatever the operator table holds under
\* that name.  Declaring or assigning a variable named like a function
\* succeeds and does not change the result of calls to that function; a
\* function name without "(" fails with 'Use of Undeclared Variable' unless
\* a variable of that name is declared.
C30_SeparateNamespaces ==
    [][ (pc = "eval" /\ k < Len(statements)) =>
            LET stmt == statements[k + 1] IN
            /\ (stmt.node = "Decl" /\ Len(stmt.names) = 1
                    /\ stmt.names[1] \notin DOMAIN env) =>
                   /\ pc' = "eval"
                   /\ env'[stmt.names[1]] = 0
            /\ (stmt.node = "Assign" /\ stmt.expr.node = "Name") =>
                   IF stmt.expr.name \in DOMAIN env
                   THEN stmt.name \in DOMAIN env =>
                            (pc' = "eval" /\ env'[stmt.name] = env[stmt.expr.name])
                   ELSE /\ pc' = "failed"
                        /\ diag'.error_statement = "Use of Undeclared Variable"
                        /\ diag'.description.args = <<stmt.expr.name>>
            /\ (stmt.node = "Assign" /\ stmt.expr.node = "FuncCall"
                    /\ ArgsHaveValues(stmt.expr, env)) =>
                   LET f == stmt.expr.func
                       vals == [j \in 1..Len(stmt.expr.args) |->
                                   ArgValues(stmt.expr, env)[j].val]
                   IN  /\ f \notin FuncNames =>
                              /\ pc' = "failed"
                              /\ diag'.error_statement = "Unknown Function"
                       /\ (f \in FuncNames /\ Len(vals) = DocArity(f)
                               /\ stmt.name \in DOMAIN env) =>
                              /\ pc' = "eval"
                              /\ env'[stmt.name] = DocFunction(f, vals).val
            /\ (src = Example_Namespace /\ envarg = None /\ k = 2) =>
                   env' = (V_C :> 1 @@ V_A :> -1)
            /\ (src = Example_BareFunction /\ envarg = None /\ k = 1) =>
                   /\ pc' = "failed"
                   /\ diag'.description.args = <<F_TAND>>
            /\ (src = Example_VarCall /\ envarg = None /\ k = 1) =>
                   /\ pc' = "failed"
                   /\ diag'.error_statement = "Unknown Function"
      ]_vars

\* "trit C, A; C = +1; A = C(C);" returned {C: +1, A: -1}: the call C(...)
\* is the function C, its argument C is the variable.
C30_Witness ==
    /\ pc = "done"
    /\ src = Example_Namespace /\ envarg = None
    /\ statements[3] = Assign(V_A, FuncCall(F_C, <<Name(V_C)>>))
    /\ result = (V_C :> 1 @@ V_A :> -1)

===========================================================================
